---- MODULE Spec2Model ----
(***************************************************************************)
(* Model of the external-dns reconciliation core:                          *)
(*   - package plan      (NewPlan, Plan.Calculate, Changes, RecordKey)     *)
(*   - package registry  (filterOwnedRecords)                              *)
(*   - package provider  (AzureProvider: Records, ApplyChanges, ...)       *)
(* Strings are TLA+ strings; Go slices are sequences; Go maps are          *)
(* functions whose DOMAIN is the set of keys present in the map.           *)
(***************************************************************************)
EXTENDS Integers, Sequences, FiniteSets, TLC

VARIABLES
    desired,     \* []*endpoint.Endpoint handed to NewPlan by the sources
    current,     \* []*endpoint.Endpoint handed to NewPlan (provider/registry Records())
    plan,        \* the *Plan built by NewPlan (receiver of Calculate)
    diff,        \* the local `changes` of Calculate before the policy loop
    calculated,  \* the *Plan returned by Calculate
    ownerID,     \* ownerID argument of the last filterOwnedRecords application
    filtered,    \* filterOwnedRecords applied to each list of calculated.Changes
    policy,      \* the Policy the control loop hands to NewPlan
    backend,     \* the record sets held by Azure DNS, per zone, in listing order
    dryRun,      \* AzureProvider.dryRun
    calls,       \* the RecordsClient calls issued by the last ApplyChanges, in order
    cycle,       \* number of ApplyChanges calls made so far
    faults,      \* the client operations that return an error when called
    err,         \* the error returned by the last Records or ApplyChanges (Nil for nil)
    pods,        \* the pods the pod source's client lists, in listing order
    nodes,       \* the nodes the node source's client lists, in listing order
    ingresses,   \* the ingresses the ingress source's client lists, in listing order
    called,      \* the sources whose Endpoints has returned in this cycle
    podSource,   \* the fields compatibility and fqdntemplate of the podSource
    ingressSource, \* the field fqdntemplate of the ingressSource
    pc           \* position of the control loop

vars == <<desired, current, plan, diff, calculated, ownerID, filtered, policy,
          backend, dryRun, calls, cycle, faults, err, pods, nodes, ingresses, called,
          podSource, ingressSource, pc>>

-----------------------------------------------------------------------------
(* Bounds of the model *)

MaxDesired == 2
MaxCurrent == 2
MaxAzureDesired == 2
MaxRecordSets == 1
MaxCycles == 2
MaxPolicies == 2

-----------------------------------------------------------------------------
(* package endpoint: vocabulary *)

RecordTypeA == "A"
RecordTypeCNAME == "CNAME"
RecordTypeTXT == "TXT"
RecordTypeInternalALIAS == "InternalAlias"
OwnerLabelKey == "owner"

\* A nil / empty map[string]string
NoLabels == <<>>

OwnerLabels(o) == (OwnerLabelKey :> o)

Endpoint(name, target, rtype, isAlias, labels) ==
    [DNSName |-> name, Target |-> target, RecordType |-> rtype,
     AliasTarget |-> isAlias, Labels |-> labels]

EndpointSet(name, rtype, targets, labels) ==
    [DNSName |-> name, RecordType |-> rtype, Targets |-> targets, Labels |-> labels]

\* number of occurrences of x in the slice s
Count(s, x) == Cardinality({i \in 1..Len(s) : s[i] = x})

\* endpoint.TargetSliceEquals: equality of two target slices as multisets
TargetSliceEquals(a, b) ==
    /\ Len(a) = Len(b)
    /\ \A i \in 1..Len(a) : Count(a, a[i]) = Count(b, a[i])

-----------------------------------------------------------------------------
(* package plan *)

RecordKey(rtype, name) == [RecordType |-> rtype, DNSName |-> name]

\* Go: m[key] = append(m[key], v)
appendTo(m, key, v) ==
    IF key \in DOMAIN m THEN [m EXCEPT ![key] = Append(@, v)]
    ELSE m @@ (key :> <<v>>)

\* Go: m[key] = v
setKey(m, key, v) ==
    IF key \in DOMAIN m THEN [m EXCEPT ![key] = v]
    ELSE m @@ (key :> v)

\* Go: m[key] on a map of slices (nil slice when the key is missing)
lookupSlice(m, key) == IF key \in DOMAIN m THEN m[key] ELSE <<>>

\* Go: m[key] on a map of label maps (nil map when the key is missing)
lookupLabels(m, key) == IF key \in DOMAIN m THEN m[key] ELSE NoLabels

EmptyChanges == [Create |-> <<>>, UpdateOld |-> <<>>, UpdateNew |-> <<>>, Delete |-> <<>>]

\* Policies (plan.Policy implementations): the two canonical policies, which
\* the operator chooses between, and one further policy under the same
\* contract (it only drops entries, and drops update pairs whole)
SyncPolicy == "sync"
UpsertOnlyPolicy == "upsert-only"
StagedPolicy == "staged"
Policies == {SyncPolicy, UpsertOnlyPolicy, StagedPolicy}

\* Policy.Apply. The staged policy withholds one kind of change per
\* application: the deletions if there are any, else the update pairs if
\* there are any, else the creations.
Apply(pol, changes) ==
    IF pol = UpsertOnlyPolicy THEN [changes EXCEPT !.Delete = <<>>]
    ELSE IF pol = StagedPolicy
    THEN (IF changes.Delete # <<>> THEN [changes EXCEPT !.Delete = <<>>]
          ELSE IF changes.UpdateOld # <<>>
          THEN [changes EXCEPT !.UpdateOld = <<>>, !.UpdateNew = <<>>]
          ELSE [changes EXCEPT !.Create = <<>>])
    ELSE changes

NilPlan ==
    [Aliases |-> <<>>, Labels |-> <<>>, CurrentTargets |-> <<>>,
     RecordTargets |-> <<>>, Policies |-> <<>>, Changes |-> EmptyChanges]

\* the sources as NewPodSource and NewIngressSource build them when neither a
\* compatibility mode nor a template is asked for (a nil template is <<>>)
NoPodSource == [compatibility |-> "", fqdntemplate |-> <<>>]
NoIngressSource == [fqdntemplate |-> <<>>]

\* NewPlan, first loop: collect aliases, keep the other endpoints as records
RECURSIVE collectAliases(_, _, _)
collectAliases(des, i, acc) ==
    IF i > Len(des) THEN acc
    ELSE LET ep == des[i] IN
         collectAliases(des, i + 1,
            IF ep.AliasTarget
            THEN [acc EXCEPT !.Aliases = appendTo(@, ep.DNSName, ep)]
            ELSE [acc EXCEPT !.records = Append(@, ep)])

\* expandAliases with the bucket keyed by the alias's own DNSName
RECURSIVE expandAliasesUnderAliasName(_, _, _, _)
expandAliasesUnderAliasName(aliases, j, ep, recordTargets) ==
    IF j > Len(aliases) THEN recordTargets
    ELSE LET alias == aliases[j]
             key == RecordKey(alias.RecordType, alias.DNSName)
         IN expandAliasesUnderAliasName(aliases, j + 1, ep,
                                        appendTo(recordTargets, key, alias.Target))

\* NewPlan, inner loop: expand the aliases registered for ep.Target
RECURSIVE expandAliases(_, _, _, _)
expandAliases(aliases, j, ep, recordTargets) ==
    IF j > Len(aliases) THEN recordTargets
    ELSE LET alias == aliases[j]
             key == RecordKey(alias.RecordType, ep.DNSName)
         IN expandAliases(aliases, j + 1, ep, appendTo(recordTargets, key, alias.Target))

\* aggregateDesired with an InternalAlias endpoint that has no alias kept as a
\* bucket of its own
RECURSIVE aggregateDesiredKeepingDangling(_, _, _, _)
aggregateDesiredKeepingDangling(records, i, aliasIndex, recordTargets) ==
    IF i > Len(records) THEN recordTargets
    ELSE LET ep == records[i] IN
         aggregateDesiredKeepingDangling(records, i + 1, aliasIndex,
            IF ep.RecordType = RecordTypeInternalALIAS /\ ep.Target \in DOMAIN aliasIndex
            THEN expandAliases(lookupSlice(aliasIndex, ep.Target), 1, ep, recordTargets)
            ELSE appendTo(recordTargets, RecordKey(ep.RecordType, ep.DNSName), ep.Target))

\* NewPlan, second loop: aggregate desired endpoint target values
RECURSIVE aggregateDesired(_, _, _, _)
aggregateDesired(records, i, aliasIndex, recordTargets) ==
    IF i > Len(records) THEN recordTargets
    ELSE LET ep == records[i] IN
         aggregateDesired(records, i + 1, aliasIndex,
            IF ep.RecordType = RecordTypeInternalALIAS
            THEN expandAliases(lookupSlice(aliasIndex, ep.Target), 1, ep, recordTargets)
            ELSE appendTo(recordTargets, RecordKey(ep.RecordType, ep.DNSName), ep.Target))

\* aggregateCurrent with the Labels of the first endpoint of a key kept
RECURSIVE aggregateCurrentFirstLabels(_, _, _)
aggregateCurrentFirstLabels(cur, i, acc) ==
    IF i > Len(cur) THEN acc
    ELSE LET ep == cur[i]
             key == RecordKey(ep.RecordType, ep.DNSName)
         IN aggregateCurrentFirstLabels(cur, i + 1,
                [acc EXCEPT !.Labels = IF key \in DOMAIN @ THEN @ ELSE setKey(@, key, ep.Labels),
                            !.CurrentTargets = appendTo(@, key, ep.Target)])

\* NewPlan, third loop: aggregate current endpoint target values and labels
RECURSIVE aggregateCurrent(_, _, _)
aggregateCurrent(cur, i, acc) ==
    IF i > Len(cur) THEN acc
    ELSE LET ep == cur[i]
             key == RecordKey(ep.RecordType, ep.DNSName)
         IN aggregateCurrent(cur, i + 1,
                [acc EXCEPT !.Labels = setKey(@, key, ep.Labels),
                            !.CurrentTargets = appendTo(@, key, ep.Target)])

\* NewPlan with the alias index of the Plan built before carried over
NewPlanKeepingAliases(cur, des, pol) ==
    LET split == collectAliases(des, 1, [Aliases |-> plan.Aliases, records |-> <<>>])
        agg == aggregateCurrent(cur, 1, [Labels |-> <<>>, CurrentTargets |-> <<>>])
    IN [Aliases |-> split.Aliases,
        Labels |-> agg.Labels,
        CurrentTargets |-> agg.CurrentTargets,
        RecordTargets |-> aggregateDesired(split.records, 1, split.Aliases, <<>>),
        Policies |-> <<pol>>,
        Changes |-> EmptyChanges]

\* NewPlan's two loops over desired run as one: an InternalAlias endpoint is
\* resolved against the aliases met before it in the list
RECURSIVE resolveInOnePass(_, _, _)
resolveInOnePass(des, i, acc) ==
    IF i > Len(des) THEN acc
    ELSE LET ep == des[i] IN
         resolveInOnePass(des, i + 1,
            IF ep.AliasTarget
            THEN [acc EXCEPT !.Aliases = appendTo(@, ep.DNSName, ep)]
            ELSE [acc EXCEPT !.RecordTargets =
                     aggregateDesired(<<ep>>, 1, acc.Aliases, @)])

NewPlanInOnePass(cur, des, pol) ==
    LET pass == resolveInOnePass(des, 1, [Aliases |-> <<>>, RecordTargets |-> <<>>])
        agg == aggregateCurrent(cur, 1, [Labels |-> <<>>, CurrentTargets |-> <<>>])
    IN [Aliases |-> pass.Aliases,
        Labels |-> agg.Labels,
        CurrentTargets |-> agg.CurrentTargets,
        RecordTargets |-> pass.RecordTargets,
        Policies |-> <<pol>>,
        Changes |-> EmptyChanges]

NewPlan(cur, des, pol) ==
    LET split == collectAliases(des, 1, [Aliases |-> <<>>, records |-> <<>>])
        agg == aggregateCurrent(cur, 1, [Labels |-> <<>>, CurrentTargets |-> <<>>])
    IN [Aliases |-> split.Aliases,
        Labels |-> agg.Labels,
        CurrentTargets |-> agg.CurrentTargets,
        RecordTargets |-> aggregateDesired(split.records, 1, split.Aliases, <<>>),
        Policies |-> <<pol>>,
        Changes |-> EmptyChanges]

\* All iteration orders of a Go map with key set S
Orders(S) ==
    {o \in [1..Cardinality(S) -> S] : \A i, j \in 1..Cardinality(S) : o[i] = o[j] => i = j}

\* desiredStep with the targets compared as ordered slices instead of multisets
desiredStepOrderedCompare(p, key, changes) ==
    LET des == p.RecordTargets[key] IN
    IF key \notin DOMAIN p.CurrentTargets
    THEN [changes EXCEPT !.Create =
              Append(@, EndpointSet(key.DNSName, key.RecordType, des, NoLabels))]
    ELSE IF p.CurrentTargets[key] = des
    THEN changes
    ELSE [changes EXCEPT
              !.UpdateOld = Append(@, EndpointSet(key.DNSName, key.RecordType,
                                p.CurrentTargets[key], lookupLabels(p.Labels, key))),
              !.UpdateNew = Append(@, EndpointSet(key.DNSName, key.RecordType,
                                des, lookupLabels(p.Labels, key)))]

\* desiredStep with the Labels left out of the UpdateNew entry
desiredStepNewWithoutLabels(p, key, changes) ==
    LET des == p.RecordTargets[key] IN
    IF key \notin DOMAIN p.CurrentTargets
    THEN [changes EXCEPT !.Create =
              Append(@, EndpointSet(key.DNSName, key.RecordType, des, NoLabels))]
    ELSE IF TargetSliceEquals(p.CurrentTargets[key], des)
    THEN changes
    ELSE [changes EXCEPT
              !.UpdateOld = Append(@, EndpointSet(key.DNSName, key.RecordType,
                                p.CurrentTargets[key], lookupLabels(p.Labels, key))),
              !.UpdateNew = Append(@, EndpointSet(key.DNSName, key.RecordType,
                                des, NoLabels))]

\* desiredStep that creates only while the Create list is still empty
desiredStepFirstCreateOnly(p, key, changes) ==
    LET des == p.RecordTargets[key] IN
    IF key \notin DOMAIN p.CurrentTargets
    THEN (IF changes.Create # <<>> THEN changes
          ELSE [changes EXCEPT !.Create =
                   Append(@, EndpointSet(key.DNSName, key.RecordType, des, NoLabels))])
    ELSE IF TargetSliceEquals(p.CurrentTargets[key], des)
    THEN changes
    ELSE [changes EXCEPT
              !.UpdateOld = Append(@, EndpointSet(key.DNSName, key.RecordType,
                                p.CurrentTargets[key], lookupLabels(p.Labels, key))),
              !.UpdateNew = Append(@, EndpointSet(key.DNSName, key.RecordType,
                                des, lookupLabels(p.Labels, key)))]

\* Calculate, body of the first loop for one key of plan.RecordTargets
desiredStep(p, key, changes) ==
    LET des == p.RecordTargets[key] IN
    IF key \notin DOMAIN p.CurrentTargets
    THEN [changes EXCEPT !.Create =
              Append(@, EndpointSet(key.DNSName, key.RecordType, des, NoLabels))]
    ELSE IF TargetSliceEquals(p.CurrentTargets[key], des)
    THEN changes
    ELSE [changes EXCEPT
              !.UpdateOld = Append(@, EndpointSet(key.DNSName, key.RecordType,
                                p.CurrentTargets[key], lookupLabels(p.Labels, key))),
              !.UpdateNew = Append(@, EndpointSet(key.DNSName, key.RecordType,
                                des, lookupLabels(p.Labels, key)))]

\* Calculate, first loop: range over plan.RecordTargets in iteration order `order`
RECURSIVE calculateDesired(_, _, _, _)
calculateDesired(p, order, i, changes) ==
    IF i > Len(order) THEN changes
    ELSE calculateDesired(p, order, i + 1, desiredStep(p, order[i], changes))

\* currentStep with the Labels left out of the Delete entry
currentStepWithoutLabels(p, key, changes) ==
    IF key \notin DOMAIN p.RecordTargets
    THEN [changes EXCEPT !.Delete =
              Append(@, EndpointSet(key.DNSName, key.RecordType, p.CurrentTargets[key],
                                    NoLabels))]
    ELSE changes

\* currentStep without the test that the key is missing from plan.RecordTargets
currentStepNoExistsCheck(p, key, changes) ==
    [changes EXCEPT !.Delete =
        Append(@, EndpointSet(key.DNSName, key.RecordType, p.CurrentTargets[key],
                              lookupLabels(p.Labels, key)))]

\* Calculate, body of the second loop for one key of plan.CurrentTargets
currentStep(p, key, changes) ==
    IF key \notin DOMAIN p.RecordTargets
    THEN [changes EXCEPT !.Delete =
              Append(@, EndpointSet(key.DNSName, key.RecordType, p.CurrentTargets[key],
                                    lookupLabels(p.Labels, key)))]
    ELSE changes

\* Calculate, second loop: range over plan.CurrentTargets in iteration order `order`
RECURSIVE calculateCurrent(_, _, _, _)
calculateCurrent(p, order, i, changes) ==
    IF i > Len(order) THEN changes
    ELSE calculateCurrent(p, order, i + 1, currentStep(p, order[i], changes))

\* applyPolicies that runs the policies last to first
RECURSIVE applyPoliciesLastToFirst(_, _, _)
applyPoliciesLastToFirst(policies, i, changes) ==
    IF i > Len(policies) THEN changes
    ELSE Apply(policies[i], applyPoliciesLastToFirst(policies, i + 1, changes))

\* Calculate, third loop: apply the policies in list order
RECURSIVE applyPolicies(_, _, _)
applyPolicies(policies, i, changes) ==
    IF i > Len(policies) THEN changes
    ELSE applyPolicies(policies, i + 1, Apply(policies[i], changes))

\* The local `changes` of Calculate when the policy loop starts
rawChanges(p, orderDesired, orderCurrent) ==
    calculateCurrent(p, orderCurrent, 1,
        calculateDesired(p, orderDesired, 1, EmptyChanges))

\* Calculate returning the raw diff without running the policy loop
CalculateWithoutPolicies(p, orderDesired, orderCurrent) ==
    [Aliases |-> p.Aliases,
     Labels |-> <<>>,
     CurrentTargets |-> p.CurrentTargets,
     RecordTargets |-> p.RecordTargets,
     Policies |-> <<>>,
     Changes |-> rawChanges(p, orderDesired, orderCurrent)]

\* Plan.Calculate: the returned Plan (Labels and Policies are not copied)
Calculate(p, orderDesired, orderCurrent) ==
    [Aliases |-> p.Aliases,
     Labels |-> <<>>,
     CurrentTargets |-> p.CurrentTargets,
     RecordTargets |-> p.RecordTargets,
     Policies |-> <<>>,
     Changes |-> applyPolicies(p.Policies, 1, rawChanges(p, orderDesired, orderCurrent))]

-----------------------------------------------------------------------------
(* package registry *)

\* skipped with a missing owner label read as the empty string
skippedMissingAsEmpty(owner, endpointSet) ==
    (IF OwnerLabelKey \in DOMAIN endpointSet.Labels
     THEN endpointSet.Labels[OwnerLabelKey] ELSE "") # owner

\* skipped with entries that carry no owner label let through
skippedOnlyWhenLabelled(owner, endpointSet) ==
    /\ OwnerLabelKey \in DOMAIN endpointSet.Labels
    /\ endpointSet.Labels[OwnerLabelKey] # owner

\* filterOwnedRecords, loop condition: the entry is skipped (continue)
skipped(owner, endpointSet) ==
    \/ OwnerLabelKey \notin DOMAIN endpointSet.Labels
    \/ endpointSet.Labels[OwnerLabelKey] # owner

\* filterLoop putting each kept entry in front of the ones kept before
RECURSIVE filterLoopPrepending(_, _, _, _)
filterLoopPrepending(owner, endpointSets, i, out) ==
    IF i > Len(endpointSets) THEN out
    ELSE filterLoopPrepending(owner, endpointSets, i + 1,
            IF skipped(owner, endpointSets[i]) THEN out
            ELSE <<endpointSets[i]>> \o out)

RECURSIVE filterLoop(_, _, _, _)
filterLoop(owner, endpointSets, i, out) ==
    IF i > Len(endpointSets) THEN out
    ELSE filterLoop(owner, endpointSets, i + 1,
            IF skipped(owner, endpointSets[i]) THEN out
            ELSE Append(out, endpointSets[i]))

filterOwnedRecords(owner, endpointSets) == filterLoop(owner, endpointSets, 1, <<>>)

\* the filter applied to each of the four lists of a Changes value
filterAll(owner, changes) ==
    [Create |-> filterOwnedRecords(owner, changes.Create),
     UpdateOld |-> filterOwnedRecords(owner, changes.UpdateOld),
     UpdateNew |-> filterOwnedRecords(owner, changes.UpdateNew),
     Delete |-> filterOwnedRecords(owner, changes.Delete)]

-----------------------------------------------------------------------------
(* package provider: AzureProvider *)

\* the nil pointer of a *string field
Nil == "(nil)"

\* strings.HasSuffix
HasSuffix(str, suffix) ==
    /\ Len(str) >= Len(suffix)
    /\ SubSeq(str, Len(str) - Len(suffix) + 1, Len(str)) = suffix

\* strings.TrimSuffix
TrimSuffix(str, suffix) ==
    IF HasSuffix(str, suffix) THEN SubSeq(str, 1, Len(str) - Len(suffix)) ELSE str

\* whether the one-character string c occurs in cutset
RECURSIVE inCutset(_, _)
inCutset(c, cutset) ==
    IF cutset = "" THEN FALSE
    ELSE Head(cutset) = c \/ inCutset(c, Tail(cutset))

\* strings.TrimLeft: drops the leading characters that occur in cutset
RECURSIVE TrimLeft(_, _)
TrimLeft(str, cutset) ==
    IF str = "" THEN ""
    ELSE IF inCutset(Head(str), cutset) THEN TrimLeft(Tail(str), cutset)
    ELSE str

AzureTypePrefix == "Microsoft.Network/dnszones/"

\* dns.RecordSet: Name and Type are *string (Nil when unset); the properties
\* hold the A addresses, the CNAME (Nil when unset) and the TXT records' values
RecordSet(name, type, aRecords, cname, txtRecords) ==
    [Name |-> name, Type |-> type, ARecords |-> aRecords, Cname |-> cname,
     TxtRecords |-> txtRecords]

\* endpoint.NewEndpoint
NewEndpoint(dnsName, target, recordType) ==
    Endpoint(dnsName, target, recordType, FALSE, NoLabels)

\* the zones ZonesClient.ListByResourceGroup lists, and AzureProvider.domainFilter
ResourceGroupZones == <<"x.y", "b.x.y", "q.r">>
domainFilter == "x.y"

\* the operations of ZonesClient and RecordsClient
ClientOps ==
    {"ListByResourceGroup", "ListByResourceGroupNextResults",
     "ListByDNSZone", "ListByDNSZoneNextResults", "Delete", "CreateOrUpdate"}

\* a non-nil error value
SomeError == "error"

\* AzureProvider.zones, the error it returns: that of ListByResourceGroup, or
\* that of ListByResourceGroupNextResults, which is called after a page that
\* is not empty (the resource group's zones come as one page)
zonesErr(failing) ==
    IF "ListByResourceGroup" \in failing THEN SomeError
    ELSE IF Len(ResourceGroupZones) > 0 /\ "ListByResourceGroupNextResults" \in failing
    THEN SomeError
    ELSE Nil

\* AzureProvider.zones, the zones it returns when the listing succeeds
zones == SelectSeq(ResourceGroupZones, LAMBDA zone : HasSuffix(zone, domainFilter))

\* formatAzureDNSName without the case of the zone apex
formatAzureDNSNameWithoutApex(recordName, zoneName) == recordName \o "." \o zoneName

formatAzureDNSName(recordName, zoneName) ==
    IF recordName = "@" THEN zoneName
    ELSE recordName \o "." \o zoneName

extractAzureTarget(recordSet) ==
    IF Len(recordSet.ARecords) > 0 /\ recordSet.ARecords[1] # Nil
    THEN recordSet.ARecords[1]
    ELSE IF recordSet.Cname # Nil
    THEN recordSet.Cname
    ELSE IF Len(recordSet.TxtRecords) > 0 /\ Len(recordSet.TxtRecords[1]) > 0
    THEN recordSet.TxtRecords[1][1]
    ELSE ""

\* Records, the callback handed to iterateRecords: the endpoints found so far
\* with the endpoint of recordSet appended, if it yields one
recordsCallback(zoneName, recordSet, endpoints) ==
    IF recordSet.Name = Nil \/ recordSet.Type = Nil THEN endpoints
    ELSE LET recordType == TrimLeft(recordSet.Type, AzureTypePrefix) IN
         IF recordType \in {"A", "CNAME", "TXT"}
         THEN LET name == formatAzureDNSName(recordSet.Name, zoneName)
                  target == extractAzureTarget(recordSet)
              IN IF target = "" THEN endpoints
                 ELSE Append(endpoints, NewEndpoint(name, target, recordType))
         ELSE endpoints

\* iterateRecords, the loop over the record sets of one page
RECURSIVE iteratePage(_, _, _, _)
iteratePage(zoneName, list, i, endpoints) ==
    IF i > Len(list) THEN endpoints
    ELSE iteratePage(zoneName, list, i + 1, recordsCallback(zoneName, list[i], endpoints))

\* AzureProvider.iterateRecords over the record sets listed for one zone, which
\* come as one page: the endpoints gathered and the error returned, that of
\* ListByDNSZone or that of ListByDNSZoneNextResults, which is called after a
\* page that is not empty
iterateRecords(zoneName, list, failing, endpoints) ==
    IF "ListByDNSZone" \in failing THEN [endpoints |-> endpoints, err |-> SomeError]
    ELSE [endpoints |-> iteratePage(zoneName, list, 1, endpoints),
          err |-> IF Len(list) > 0 /\ "ListByDNSZoneNextResults" \in failing
                  THEN SomeError ELSE Nil]

\* AzureProvider.Records, the loop over the zones: nil and the error as soon
\* as a zone's iterateRecords fails
RECURSIVE recordsOfZones(_, _, _, _, _)
recordsOfZones(b, zs, failing, i, endpoints) ==
    IF i > Len(zs) THEN [endpoints |-> endpoints, err |-> Nil]
    ELSE LET zone == iterateRecords(zs[i], b[zs[i]], failing, endpoints) IN
         IF zone.err # Nil THEN [endpoints |-> <<>>, err |-> zone.err]
         ELSE recordsOfZones(b, zs, failing, i + 1, zone.endpoints)

\* AzureProvider.Records: nil and the error when zones() or the listing of a
\* zone fails, the endpoints and nil otherwise
Records(b, failing) ==
    IF zonesErr(failing) # Nil
    THEN [endpoints |-> <<>>, err |-> zonesErr(failing)]
    ELSE recordsOfZones(b, zones, failing, 1, <<>>)

\* AzureProvider.findZone: the index in zs of the longest zone name that is a
\* suffix of name, 0 for nil
RECURSIVE findZoneLoop(_, _, _, _)
findZoneLoop(zs, name, idx, result) ==
    IF idx > Len(zs) THEN result
    ELSE findZoneLoop(zs, name, idx + 1,
            IF HasSuffix(name, zs[idx]) /\ (result = 0 \/ Len(zs[idx]) > Len(zs[result]))
            THEN idx ELSE result)

findZone(zs, name) == findZoneLoop(zs, name, 1, 0)

\* mapChanges, the closure mapChange: the change is appended under its zone
mapChange(zs, changeMap, change) ==
    LET zone == findZone(zs, change.DNSName) IN
    IF zone = 0 THEN changeMap
    ELSE appendTo(changeMap, zone, [change EXCEPT !.RecordType = change.RecordType])

RECURSIVE mapChangeList(_, _, _, _)
mapChangeList(zs, changeMap, list, i) ==
    IF i > Len(list) THEN changeMap
    ELSE mapChangeList(zs, mapChange(zs, changeMap, list[i]), list, i + 1)

\* AzureProvider.mapChanges: azureChangeMaps keyed by the zone's index in zs
mapChanges(zs, changes) ==
    [deleted |-> mapChangeList(zs, mapChangeList(zs, <<>>, changes.Delete, 1),
                               changes.UpdateOld, 1),
     updated |-> mapChangeList(zs, mapChangeList(zs, <<>>, changes.Create, 1),
                               changes.UpdateNew, 1)]

recordSetNameForZone(zoneName, endpointSet) ==
    LET name == TrimSuffix(SubSeq(endpointSet.DNSName, 1,
                                  Len(endpointSet.DNSName) - Len(zoneName)), ".")
    IN IF name = "" THEN "@" ELSE name

\* AzureProvider.newRecordSet: the record set, or err for an unsupported entry
newRecordSet(endpointSet) ==
    IF endpointSet.RecordType = "A"
    THEN [err |-> FALSE, recordSet |-> RecordSet(Nil, Nil, endpointSet.Targets, Nil, <<>>)]
    ELSE IF endpointSet.RecordType = "CNAME"
    THEN IF Len(endpointSet.Targets) # 1
         THEN [err |-> TRUE, recordSet |-> RecordSet(Nil, Nil, <<>>, Nil, <<>>)]
         ELSE [err |-> FALSE,
               recordSet |-> RecordSet(Nil, Nil, <<>>, endpointSet.Targets[1], <<>>)]
    ELSE IF endpointSet.RecordType = "TXT"
    THEN [err |-> FALSE,
          recordSet |-> RecordSet(Nil, Nil, <<>>, Nil, <<endpointSet.Targets>>)]
    ELSE [err |-> TRUE, recordSet |-> RecordSet(Nil, Nil, <<>>, Nil, <<>>)]

\* RecordsClient.Delete as Azure DNS serves it: the record set of that name and
\* type leaves the zone
clientDelete(b, zoneName, name, recordType) ==
    [b EXCEPT ![zoneName] =
        SelectSeq(@, LAMBDA rs : ~(rs.Name = name /\ rs.Type = AzureTypePrefix \o recordType))]

\* RecordsClient.CreateOrUpdate as Azure DNS serves it: the record set of that
\* name and type is replaced, or added at the end of the zone's listing
clientCreateOrUpdate(b, zoneName, name, recordType, parameters) ==
    LET stored == [parameters EXCEPT !.Name = name, !.Type = AzureTypePrefix \o recordType]
        same(rs) == rs.Name = name /\ rs.Type = stored.Type
    IN [b EXCEPT ![zoneName] =
            IF \E i \in 1..Len(@) : same(@[i])
            THEN [i \in 1..Len(@) |-> IF same(@[i]) THEN stored ELSE @[i]]
            ELSE Append(@, stored)]

DeleteCall(zoneName, name, recordType) ==
    [op |-> "Delete", zone |-> zoneName, name |-> name, recordType |-> recordType,
     parameters |-> RecordSet(Nil, Nil, <<>>, Nil, <<>>)]

CreateOrUpdateCall(zoneName, name, recordType, parameters) ==
    [op |-> "CreateOrUpdate", zone |-> zoneName, name |-> name, recordType |-> recordType,
     parameters |-> parameters]

\* deleteRecords, body of the inner loop; st holds the backend, the calls made
\* and the client operations that fail; the error of a failed call is logged
deleteRecord(dry, zoneName, endpointSet, st) ==
    LET name == recordSetNameForZone(zoneName, endpointSet) IN
    IF dry THEN st
    ELSE [st EXCEPT
            !.backend = IF "Delete" \in st.failing THEN @
                        ELSE clientDelete(@, zoneName, name, endpointSet.RecordType),
            !.calls = Append(@, DeleteCall(zoneName, name, endpointSet.RecordType))]

\* updateRecord without the dry-run branch
updateRecordIgnoringDryRun(dry, zoneName, endpointSet, st) ==
    LET name == recordSetNameForZone(zoneName, endpointSet)
        built == newRecordSet(endpointSet)
    IN IF built.err THEN st
       ELSE [st EXCEPT
               !.backend = IF "CreateOrUpdate" \in st.failing THEN @
                           ELSE clientCreateOrUpdate(@, zoneName, name,
                                                     endpointSet.RecordType, built.recordSet),
               !.calls = Append(@, CreateOrUpdateCall(zoneName, name,
                                                endpointSet.RecordType, built.recordSet))]

\* updateRecords, body of the inner loop
updateRecord(dry, zoneName, endpointSet, st) ==
    LET name == recordSetNameForZone(zoneName, endpointSet)
        built == newRecordSet(endpointSet)
    IN IF dry \/ built.err THEN st
       ELSE [st EXCEPT
               !.backend = IF "CreateOrUpdate" \in st.failing THEN @
                           ELSE clientCreateOrUpdate(@, zoneName, name,
                                                     endpointSet.RecordType, built.recordSet),
               !.calls = Append(@, CreateOrUpdateCall(zoneName, name,
                                                endpointSet.RecordType, built.recordSet))]

RECURSIVE deleteZone(_, _, _, _, _)
deleteZone(dry, zoneName, endpointSets, i, st) ==
    IF i > Len(endpointSets) THEN st
    ELSE deleteZone(dry, zoneName, endpointSets, i + 1,
                    deleteRecord(dry, zoneName, endpointSets[i], st))

RECURSIVE updateZone(_, _, _, _, _)
updateZone(dry, zoneName, endpointSets, i, st) ==
    IF i > Len(endpointSets) THEN st
    ELSE updateZone(dry, zoneName, endpointSets, i + 1,
                    updateRecord(dry, zoneName, endpointSets[i], st))

\* AzureProvider.deleteRecords: range over the map `deleted` in iteration order `order`
RECURSIVE deleteRecords(_, _, _, _, _, _)
deleteRecords(dry, zs, deleted, order, i, st) ==
    IF i > Len(order) THEN st
    ELSE deleteRecords(dry, zs, deleted, order, i + 1,
                       deleteZone(dry, zs[order[i]], deleted[order[i]], 1, st))

\* AzureProvider.updateRecords: range over the map `updated` in iteration order `order`
RECURSIVE updateRecords(_, _, _, _, _, _)
updateRecords(dry, zs, updated, order, i, st) ==
    IF i > Len(order) THEN st
    ELSE updateRecords(dry, zs, updated, order, i + 1,
                       updateZone(dry, zs[order[i]], updated[order[i]], 1, st))

\* ApplyChanges with updateRecords run before deleteRecords
ApplyChangesUpdatingFirst(b, dry, failing, changes, orderDeleted, orderUpdated) ==
    IF zonesErr(failing) # Nil
    THEN [backend |-> b, calls |-> <<>>, err |-> zonesErr(failing)]
    ELSE LET mapped == mapChanges(zones, changes)
             afterUpdate == updateRecords(dry, zones, mapped.updated, orderUpdated, 1,
                                [backend |-> b, calls |-> <<>>, failing |-> failing])
             afterDelete == deleteRecords(dry, zones, mapped.deleted, orderDeleted, 1,
                                          afterUpdate)
         IN [backend |-> afterDelete.backend, calls |-> afterDelete.calls, err |-> Nil]

\* AzureProvider.ApplyChanges: the backend, the calls made and the error
\* returned; deleteRecords and updateRecords return nothing
ApplyChanges(b, dry, failing, changes, orderDeleted, orderUpdated) ==
    IF zonesErr(failing) # Nil
    THEN [backend |-> b, calls |-> <<>>, err |-> zonesErr(failing)]
    ELSE LET mapped == mapChanges(zones, changes)
             afterDelete == deleteRecords(dry, zones, mapped.deleted, orderDeleted, 1,
                                [backend |-> b, calls |-> <<>>, failing |-> failing])
             afterUpdate == updateRecords(dry, zones, mapped.updated, orderUpdated, 1,
                                          afterDelete)
         IN [backend |-> afterUpdate.backend, calls |-> afterUpdate.calls, err |-> Nil]

-----------------------------------------------------------------------------
(* Inputs of the plan engine *)

\* all slices over S of length at most n
SeqsUpTo(S, n) == UNION {[1..k -> S] : k \in 0..n}

AppName == "app"
WebName == "web"
AliasName == "lb"
Target1 == "t1"

\* regular endpoints (the target of an InternalAlias endpoint names an alias),
\* and AliasTarget endpoints registered under AliasName
DesiredEndpoints ==
    {Endpoint(AppName, Target1, RecordTypeA, FALSE, NoLabels),
     Endpoint(AppName, AliasName, RecordTypeA, FALSE, NoLabels),
     Endpoint(AppName, AliasName, RecordTypeCNAME, FALSE, NoLabels),
     Endpoint(AppName, AliasName, RecordTypeInternalALIAS, FALSE, NoLabels),
     Endpoint(WebName, Target1, RecordTypeA, FALSE, NoLabels),
     Endpoint(AliasName, Target1, RecordTypeA, TRUE, NoLabels),
     Endpoint(AliasName, Target1, RecordTypeCNAME, TRUE, NoLabels)}

OwnerIDs == {"", "o1"}

CurrentEndpoints ==
    {Endpoint(AppName, Target1, RecordTypeA, FALSE, NoLabels),
     Endpoint(AppName, Target1, RecordTypeA, FALSE, OwnerLabels("o1")),
     Endpoint(AppName, AliasName, RecordTypeA, FALSE, OwnerLabels("o1")),
     Endpoint(AppName, Target1, RecordTypeCNAME, FALSE, OwnerLabels("o1")),
     Endpoint(WebName, Target1, RecordTypeA, FALSE, NoLabels)}

-----------------------------------------------------------------------------
(* Inputs of the Azure reconciliation loop *)

\* every zone of the resource group without record sets
EmptyBackend == [z \in {ResourceGroupZones[i] : i \in 1..Len(ResourceGroupZones)} |-> <<>>]

AzureDesiredEndpoints ==
    {NewEndpoint("a.x.y", "1", "A"),
     NewEndpoint("a.x.y", "2", "A"),
     NewEndpoint("a.x.y", "1", "CNAME"),
     NewEndpoint("x.y", "1", "TXT"),
     NewEndpoint("b.x.y", "1", "A"),
     NewEndpoint("ax.y", "1", "A"),
     NewEndpoint("n.o", "1", "A"),
     NewEndpoint("a.x.y", "1", "")}

\* record sets zone x.y may hold when the loop starts
InitialRecordSets ==
    {RecordSet("a", AzureTypePrefix \o "A", <<"1">>, Nil, <<>>),
     RecordSet("a", AzureTypePrefix \o "A", <<"2", "1">>, Nil, <<>>),
     RecordSet("a", AzureTypePrefix \o "CNAME", <<>>, "2", <<>>),
     RecordSet("@", AzureTypePrefix \o "TXT", <<>>, Nil, <<<<"1">>>>),
     RecordSet("@", AzureTypePrefix \o "NS", <<>>, Nil, <<>>),
     RecordSet("b", AzureTypePrefix \o "A", <<"1">>, Nil, <<>>)}

\* listings without two record sets of the same name and type
InitialListings ==
    {l \in SeqsUpTo(InitialRecordSets, MaxRecordSets) :
        \A i, j \in 1..Len(l) :
            (l[i].Name = l[j].Name /\ l[i].Type = l[j].Type) => i = j}

\* entries a caller may hand to ApplyChanges directly
DirectEntries ==
    {EndpointSet("a.x.y", "A", <<"1">>, NoLabels),
     EndpointSet("a.x.y", "", <<"1">>, NoLabels),
     EndpointSet("x.y", "CNAME", <<"1", "2">>, NoLabels),
     EndpointSet("n.o", "A", <<"1">>, NoLabels)}

DirectLists == {<<>>} \cup {<<e>> : e \in DirectEntries}

-----------------------------------------------------------------------------
(* The plan engine as a state machine *)

Init ==
    /\ desired \in SeqsUpTo(DesiredEndpoints, MaxDesired)
    /\ current \in SeqsUpTo(CurrentEndpoints, MaxCurrent)
    /\ policy \in {SyncPolicy, UpsertOnlyPolicy}
    /\ plan = NilPlan
    /\ diff = EmptyChanges
    /\ calculated = NilPlan
    /\ ownerID = ""
    /\ filtered = EmptyChanges
    /\ backend = EmptyBackend
    /\ dryRun = FALSE
    /\ calls = <<>>
    /\ cycle = 0
    /\ faults = {}
    /\ err = Nil
    /\ pods = <<>>
    /\ nodes = <<>>
    /\ ingresses = <<>>
    /\ podSource = NoPodSource
    /\ ingressSource = NoIngressSource
    /\ called = {}
    /\ pc = "records"

NewPlanStep ==
    /\ pc = "records"
    /\ plan' = NewPlan(current, desired, policy)
    /\ pc' = "planned"
    /\ UNCHANGED <<pods, nodes, ingresses, called, podSource, ingressSource>>
    /\ UNCHANGED <<desired, current, diff, calculated, ownerID, filtered, policy,
                   backend, dryRun, calls, cycle, faults, err>>

CalculateStep ==
    /\ pc = "planned"
    /\ \E od \in Orders(DOMAIN plan.RecordTargets), oc \in Orders(DOMAIN plan.CurrentTargets) :
          /\ diff' = rawChanges(plan, od, oc)
          /\ calculated' = Calculate(plan, od, oc)
    /\ pc' = "calculated"
    /\ UNCHANGED <<pods, nodes, ingresses, called, podSource, ingressSource>>
    /\ UNCHANGED <<desired, current, plan, ownerID, filtered, policy,
                   backend, dryRun, calls, cycle, faults, err>>

FilterStep ==
    /\ pc = "calculated"
    /\ \E o \in OwnerIDs :
          /\ ownerID' = o
          /\ filtered' = filterAll(o, calculated.Changes)
    /\ pc' = "filtered"
    /\ UNCHANGED <<pods, nodes, ingresses, called, podSource, ingressSource>>
    /\ UNCHANGED <<desired, current, plan, diff, calculated, policy,
                   backend, dryRun, calls, cycle, faults, err>>

Next == NewPlanStep \/ CalculateStep \/ FilterStep

Spec == Init /\ [][Next]_vars

-----------------------------------------------------------------------------
(* The plan engine over several reconciliation cycles *)

\* the desired and current lists the sources and the registry may hand over
CycleDesired ==
    {<<>>,
     <<Endpoint(AliasName, Target1, RecordTypeCNAME, TRUE, NoLabels)>>,
     <<Endpoint(AppName, AliasName, RecordTypeInternalALIAS, FALSE, NoLabels)>>,
     <<Endpoint(AliasName, Target1, RecordTypeCNAME, TRUE, NoLabels),
       Endpoint(AppName, AliasName, RecordTypeInternalALIAS, FALSE, NoLabels)>>,
     <<Endpoint(AppName, Target1, RecordTypeA, FALSE, NoLabels),
       Endpoint(WebName, Target1, RecordTypeA, FALSE, NoLabels)>>,
     <<Endpoint(AppName, AliasName, RecordTypeInternalALIAS, FALSE, NoLabels),
       Endpoint(AliasName, Target1, RecordTypeA, TRUE, NoLabels),
       Endpoint(AppName, AliasName, RecordTypeA, FALSE, NoLabels)>>}

CycleCurrent ==
    {<<>>,
     <<Endpoint(AppName, AliasName, RecordTypeA, FALSE, OwnerLabels("o1")),
       Endpoint(WebName, AliasName, RecordTypeA, FALSE, NoLabels)>>,
     <<Endpoint(AppName, Target1, RecordTypeCNAME, FALSE, NoLabels),
       Endpoint(AppName, Target1, RecordTypeCNAME, FALSE, OwnerLabels("o1"))>>}

CycleInit ==
    /\ desired = <<>>
    /\ current = <<>>
    /\ policy = SyncPolicy
    /\ plan = NilPlan
    /\ diff = EmptyChanges
    /\ calculated = NilPlan
    /\ ownerID = ""
    /\ filtered = EmptyChanges
    /\ backend = EmptyBackend
    /\ dryRun = FALSE
    /\ calls = <<>>
    /\ cycle = 0
    /\ faults = {}
    /\ err = Nil
    /\ pods = <<>>
    /\ nodes = <<>>
    /\ ingresses = <<>>
    /\ podSource = NoPodSource
    /\ ingressSource = NoIngressSource
    /\ called = {}
    /\ pc = "idle"

\* a cycle starts: the loop fetches the two lists and drops the previous result
SourcesStep ==
    /\ pc \in {"idle", "calculated", "recalculated"}
    /\ cycle < MaxCycles
    /\ desired' \in CycleDesired
    /\ current' \in CycleCurrent
    /\ policy' \in {SyncPolicy, UpsertOnlyPolicy}
    /\ diff' = EmptyChanges
    /\ calculated' = NilPlan
    /\ cycle' = cycle + 1
    /\ pc' = "records"
    /\ UNCHANGED <<pods, nodes, ingresses, called, podSource, ingressSource>>
    /\ UNCHANGED <<plan, ownerID, filtered, backend, dryRun, calls, faults, err>>

\* a caller sets the exported field Policies of the Plan NewPlan returned
SetPoliciesStep ==
    /\ pc = "planned"
    /\ plan.Policies = <<policy>>
    /\ \E policies \in SeqsUpTo(Policies, MaxPolicies) :
          /\ policies # plan.Policies
          /\ plan' = [plan EXCEPT !.Policies = policies]
    /\ UNCHANGED <<pods, nodes, ingresses, called, podSource, ingressSource>>
    /\ UNCHANGED <<desired, current, diff, calculated, ownerID, filtered, policy,
                   backend, dryRun, calls, cycle, faults, err, pc>>

\* Calculate is called once more on the same Plan
RecalculateStep ==
    /\ pc = "calculated"
    /\ \E od \in Orders(DOMAIN plan.RecordTargets), oc \in Orders(DOMAIN plan.CurrentTargets) :
          /\ diff' = rawChanges(plan, od, oc)
          /\ calculated' = Calculate(plan, od, oc)
    /\ pc' = "recalculated"
    /\ UNCHANGED <<pods, nodes, ingresses, called, podSource, ingressSource>>
    /\ UNCHANGED <<desired, current, plan, ownerID, filtered, policy,
                   backend, dryRun, calls, cycle, faults, err>>

CycleNext ==
    SourcesStep \/ NewPlanStep \/ SetPoliciesStep \/ CalculateStep \/ RecalculateStep

CycleSpec == CycleInit /\ [][CycleNext]_vars

-----------------------------------------------------------------------------
(* The reconciliation loop against Azure DNS as a state machine *)

AzureInit ==
    /\ desired \in SeqsUpTo(AzureDesiredEndpoints, MaxAzureDesired)
    /\ \E l \in InitialListings : backend = [EmptyBackend EXCEPT !["x.y"] = l]
    /\ dryRun \in BOOLEAN
    /\ policy \in {SyncPolicy, UpsertOnlyPolicy}
    /\ current = <<>>
    /\ plan = NilPlan
    /\ diff = EmptyChanges
    /\ calculated = NilPlan
    /\ ownerID = ""
    /\ filtered = EmptyChanges
    /\ calls = <<>>
    /\ cycle = 0
    /\ faults = {}
    /\ err = Nil
    /\ pods = <<>>
    /\ nodes = <<>>
    /\ ingresses = <<>>
    /\ podSource = NoPodSource
    /\ ingressSource = NoIngressSource
    /\ called = {}
    /\ pc = "idle"

\* the loop reads the current records from the provider
RecordsStep ==
    /\ pc = "idle"
    /\ cycle < MaxCycles
    /\ LET result == Records(backend, faults) IN
          /\ current' = result.endpoints
          /\ err' = result.err
          /\ pc' = IF result.err = Nil THEN "records" ELSE "failed"
    /\ UNCHANGED <<pods, nodes, ingresses, called, podSource, ingressSource>>
    /\ UNCHANGED <<desired, plan, diff, calculated, ownerID, filtered, policy,
                   backend, dryRun, calls, cycle, faults>>

\* the loop hands the Changes of the calculated Plan to the provider
ApplyChangesStep ==
    /\ pc = "calculated"
    /\ LET mapped == mapChanges(zones, calculated.Changes) IN
       \E od \in Orders(DOMAIN mapped.deleted), ou \in Orders(DOMAIN mapped.updated) :
          LET st == ApplyChanges(backend, dryRun, faults, calculated.Changes, od, ou) IN
          /\ backend' = st.backend
          /\ calls' = st.calls
          /\ err' = st.err
    /\ cycle' = cycle + 1
    /\ pc' = "idle"
    /\ UNCHANGED <<pods, nodes, ingresses, called, podSource, ingressSource>>
    /\ UNCHANGED <<desired, current, plan, diff, calculated, ownerID, filtered, policy,
                   dryRun, faults>>

\* a caller hands a Changes value of its own to a provider whose zones are empty
DirectApplyStep ==
    /\ pc = "idle"
    /\ cycle = 0
    /\ desired = <<>>
    /\ backend = EmptyBackend
    /\ \E c \in DirectLists, uo \in DirectLists, un \in DirectLists, d \in DirectLists :
          calculated' = [NilPlan EXCEPT !.Changes =
                            [Create |-> c, UpdateOld |-> uo, UpdateNew |-> un, Delete |-> d]]
    /\ cycle' = MaxCycles - 1
    /\ pc' = "calculated"
    /\ UNCHANGED <<pods, nodes, ingresses, called, podSource, ingressSource>>
    /\ UNCHANGED <<desired, current, plan, diff, ownerID, filtered, policy,
                   backend, dryRun, calls, faults, err>>

AzureNext ==
    RecordsStep \/ NewPlanStep \/ CalculateStep \/ ApplyChangesStep \/ DirectApplyStep

AzureSpec == AzureInit /\ [][AzureNext]_vars

-----------------------------------------------------------------------------
(* AzureProvider.ApplyChanges on Changes handed to it directly *)

AddressTarget == "1.2.3.4"
HostTarget == "h.z"

ApplyEntries ==
    <<EndpointSet("a.x.y", "A", <<AddressTarget>>, NoLabels),
      EndpointSet("a.x.y", "", <<AddressTarget>>, NoLabels),
      EndpointSet("x.y", "CNAME", <<HostTarget, "i.z">>, NoLabels),
      EndpointSet("n.o", "A", <<AddressTarget>>, NoLabels),
      EndpointSet("c.b.x.y", "TXT", <<"v">>, NoLabels),
      EndpointSet("c.b.x.y", "", <<HostTarget>>, NoLabels)>>

\* the lists a Changes value is built from
ApplyLists == {<<>>} \cup {<<ApplyEntries[i]>> : i \in 1..Len(ApplyEntries)}

\* the zones before the call: empty, or holding a record set each
ApplyBackends ==
    {EmptyBackend,
     [EmptyBackend EXCEPT
        !["x.y"] = <<RecordSet("a", AzureTypePrefix \o "A", <<"5.6.7.8">>, Nil, <<>>)>>,
        !["b.x.y"] = <<RecordSet("c", AzureTypePrefix \o "TXT", <<>>, Nil, <<<<"w">>>>)>>]}

\* no client operation fails, or one of them does
SingleFaults == {{}} \cup {{op} : op \in ClientOps}

ApplyInit ==
    /\ \E c \in ApplyLists, uo \in ApplyLists, un \in ApplyLists, d \in ApplyLists :
          calculated = [NilPlan EXCEPT !.Changes =
                            [Create |-> c, UpdateOld |-> uo, UpdateNew |-> un, Delete |-> d]]
    /\ backend \in ApplyBackends
    /\ dryRun \in BOOLEAN
    /\ faults \in SingleFaults
    /\ desired = <<>>
    /\ current = <<>>
    /\ policy = SyncPolicy
    /\ plan = NilPlan
    /\ diff = EmptyChanges
    /\ ownerID = ""
    /\ filtered = EmptyChanges
    /\ calls = <<>>
    /\ cycle = 0
    /\ err = Nil
    /\ pods = <<>>
    /\ nodes = <<>>
    /\ ingresses = <<>>
    /\ podSource = NoPodSource
    /\ ingressSource = NoIngressSource
    /\ called = {}
    /\ pc = "calculated"

ApplyNext == ApplyChangesStep \/ RecordsStep

ApplySpec == ApplyInit /\ [][ApplyNext]_vars

-----------------------------------------------------------------------------
(* AzureProvider.Records on the record sets Azure DNS lists *)

\* record sets zone x.y may list: the supported types, types Records passes
\* over, and record sets without name, type or target
ListedRecordSets ==
    {RecordSet("@", AzureTypePrefix \o "A", <<AddressTarget>>, Nil, <<>>),
     RecordSet("n", AzureTypePrefix \o "A", <<"5.6.7.8", AddressTarget>>, Nil, <<>>),
     RecordSet("n", AzureTypePrefix \o "CNAME", <<>>, HostTarget, <<>>),
     RecordSet("@", AzureTypePrefix \o "TXT", <<>>, Nil, <<<<"v", "w">>>>),
     RecordSet("@", AzureTypePrefix \o "NS", <<>>, Nil, <<>>),
     RecordSet("@", AzureTypePrefix \o "SOA", <<>>, Nil, <<>>),
     RecordSet("n", AzureTypePrefix \o "MX", <<>>, Nil, <<>>),
     RecordSet("n", AzureTypePrefix \o "AAAA", <<>>, Nil, <<>>),
     RecordSet("n", AzureTypePrefix \o "SRV", <<>>, Nil, <<>>),
     RecordSet("n", AzureTypePrefix \o "PTR", <<>>, Nil, <<>>),
     RecordSet("n", AzureTypePrefix \o "CAA", <<>>, Nil, <<>>),
     RecordSet(Nil, AzureTypePrefix \o "A", <<AddressTarget>>, Nil, <<>>),
     RecordSet("n", Nil, <<AddressTarget>>, Nil, <<>>),
     RecordSet("e", AzureTypePrefix \o "A", <<>>, Nil, <<>>),
     RecordSet("e", AzureTypePrefix \o "TXT", <<>>, Nil, <<<<>>>>)}

\* listings without two record sets of the same name and type
RecordListings ==
    {l \in SeqsUpTo(ListedRecordSets, MaxRecordSets) :
        \A i, j \in 1..Len(l) :
            (l[i].Name = l[j].Name /\ l[i].Type = l[j].Type) => i = j}

\* what the other zones of the resource group may list
OtherListings == {<<>>, <<RecordSet("c", AzureTypePrefix \o "A", <<"9.9.9.9">>, Nil, <<>>)>>}

RecordsInit ==
    /\ \E l \in RecordListings, m \in OtherListings, o \in OtherListings :
          backend = [EmptyBackend EXCEPT !["x.y"] = l, !["b.x.y"] = m, !["q.r"] = o]
    /\ faults \in SingleFaults
    /\ dryRun \in BOOLEAN
    /\ desired = <<>>
    /\ current = <<>>
    /\ policy = SyncPolicy
    /\ plan = NilPlan
    /\ diff = EmptyChanges
    /\ calculated = NilPlan
    /\ ownerID = ""
    /\ filtered = EmptyChanges
    /\ calls = <<>>
    /\ cycle = 0
    /\ err = Nil
    /\ pods = <<>>
    /\ nodes = <<>>
    /\ ingresses = <<>>
    /\ podSource = NoPodSource
    /\ ingressSource = NoIngressSource
    /\ called = {}
    /\ pc = "idle"

RecordsNext == RecordsStep

RecordsSpec == RecordsInit /\ [][RecordsNext]_vars

-----------------------------------------------------------------------------
(* package source: pod and node sources *)

controllerAnnotationKey == "external-dns.alpha.kubernetes.io/controller"
hostnameAnnotationKey == "external-dns.alpha.kubernetes.io/hostname"
controllerAnnotationValue == "dns-controller"
dnsControllerExternalAnnotationKey == "dns.alpha.kubernetes.io/external-test"
dnsControllerInternalAnnotationKey == "dns.alpha.kubernetes.io/internal-test"
compatibilityMate == "mate"
compatibilityDnsController == "dnscontroller"

RoleTypeExternal == "external"
RoleTypeInternal == "internal"

\* v1.NodeAddressType values
NodeInternalIP == "InternalIP"
NodeExternalIP == "ExternalIP"
NodeHostName == "Hostname"

\* strings.HasPrefix and strings.TrimPrefix
HasPrefix(str, prefix) ==
    /\ Len(str) >= Len(prefix)
    /\ SubSeq(str, 1, Len(prefix)) = prefix

TrimPrefix(str, prefix) ==
    IF HasPrefix(str, prefix) THEN SubSeq(str, Len(prefix) + 1, Len(str)) ELSE str

aliasForNodesInRole(role, roleType) == "node/role=" \o role \o "/" \o roleType

aliasForNodeName(nodeName, roleType) == "node/" \o nodeName \o "/" \o roleType

\* endpoint.NewAliasTargetEndpoint
NewAliasTargetEndpoint(dnsName, target, recordType) ==
    Endpoint(dnsName, target, recordType, TRUE, NoLabels)

\* the fields of v1.Pod and v1.Node the sources and the templates read
Pod(name, annotations, hostNetwork, nodeName, podIP) ==
    [Name |-> name, Annotations |-> annotations, HostNetwork |-> hostNetwork,
     NodeName |-> nodeName, PodIP |-> podIP]

NodeAddress(type, address) == [Type |-> type, Address |-> address]

Node(name, labels, addresses) == [Name |-> name, Labels |-> labels, Addresses |-> addresses]

\* Templates belong to the template library, not to this package. A parsed
\* template is taken for what its Execute does: it maps each object it can
\* be executed on to [out, err], the text Execute writes for that object or
\* the error it returns. Parsing is a call into the library as well: its
\* result `parsed` is [tmpl, err].

\* NewPodSource: the template is parsed unless it is the empty string; a
\* template that does not parse gives the error and no source (<<>>). The
\* field fqdntemplate is <<>> for a nil template and <<tmpl>> otherwise.
NewPodSource(fqdntemplate, parsed, compat) ==
    IF fqdntemplate # "" /\ parsed.err # Nil THEN [source |-> <<>>, err |-> parsed.err]
    ELSE [source |-> [compatibility |-> compat,
                      fqdntemplate |-> IF fqdntemplate # "" THEN <<parsed.tmpl>> ELSE <<>>],
          err |-> Nil]

\* NewIngressSource
NewIngressSource(fqdntemplate, parsed) ==
    IF fqdntemplate # "" /\ parsed.err # Nil THEN [source |-> <<>>, err |-> parsed.err]
    ELSE [source |-> [fqdntemplate |-> IF fqdntemplate # "" THEN <<parsed.tmpl>> ELSE <<>>],
          err |-> Nil]

\* endpointsFromPod with the node's internal alias in place of the external one
endpointsFromPodInternalAlias(pod) ==
    IF hostnameAnnotationKey \notin DOMAIN pod.Annotations THEN <<>>
    ELSE IF pod.HostNetwork /\ pod.NodeName # ""
         THEN <<NewEndpoint(pod.Annotations[hostnameAnnotationKey],
                            aliasForNodeName(pod.NodeName, RoleTypeInternal),
                            RecordTypeInternalALIAS)>>
         ELSE <<>>

endpointsFromPod(pod) ==
    IF hostnameAnnotationKey \notin DOMAIN pod.Annotations THEN <<>>
    ELSE IF pod.HostNetwork /\ pod.NodeName # ""
         THEN <<NewEndpoint(pod.Annotations[hostnameAnnotationKey],
                            aliasForNodeName(pod.NodeName, RoleTypeExternal),
                            RecordTypeInternalALIAS)>>
         ELSE <<>>

legacyEndpointsFromDnsControllerPod(pod) ==
    LET internalExists == dnsControllerInternalAnnotationKey \in DOMAIN pod.Annotations
        externalExists == dnsControllerExternalAnnotationKey \in DOMAIN pod.Annotations
        fromInternal ==
            IF internalExists /\ pod.HostNetwork /\ pod.PodIP # ""
            THEN <<NewEndpoint(pod.Annotations[dnsControllerInternalAnnotationKey],
                               pod.PodIP, RecordTypeA)>>
            ELSE <<>>
        fromExternal ==
            IF externalExists /\ pod.HostNetwork /\ pod.NodeName # ""
            THEN <<NewEndpoint(pod.Annotations[dnsControllerExternalAnnotationKey],
                               aliasForNodeName(pod.NodeName, RoleTypeExternal),
                               RecordTypeInternalALIAS)>>
            ELSE <<>>
    IN IF ~internalExists /\ ~externalExists THEN <<>> ELSE fromInternal \o fromExternal

legacyEndpointsFromPod(pod, compat) ==
    IF compat = compatibilityDnsController THEN legacyEndpointsFromDnsControllerPod(pod)
    ELSE <<>>

\* podSource.endpointsFromTemplate: the template is executed on the pod and
\* what it writes is the hostname
endpointsFromTemplate(ps, pod) ==
    LET executed == ps.fqdntemplate[1][pod] IN
    IF executed.err # Nil THEN [endpoints |-> <<>>, err |-> executed.err]
    ELSE [endpoints |->
              IF pod.HostNetwork /\ pod.NodeName # ""
              THEN <<NewEndpoint(executed.out,
                                 aliasForNodeName(pod.NodeName, RoleTypeExternal),
                                 RecordTypeInternalALIAS)>>
              ELSE <<>>,
          err |-> Nil]

\* podSource.Endpoints, loop body: the endpoints one pod adds, or the error
\* of the template
podEndpointsOf(ps, pod) ==
    IF /\ controllerAnnotationKey \in DOMAIN pod.Annotations
       /\ pod.Annotations[controllerAnnotationKey] # controllerAnnotationValue
    THEN [endpoints |-> <<>>, err |-> Nil]
    ELSE LET direct == endpointsFromPod(pod)
             legacy == IF Len(direct) = 0 /\ ps.compatibility # ""
                       THEN legacyEndpointsFromPod(pod, ps.compatibility) ELSE direct
         IN IF Len(legacy) = 0 /\ ps.fqdntemplate # <<>>
            THEN endpointsFromTemplate(ps, pod)
            ELSE [endpoints |-> legacy, err |-> Nil]

\* podSource.Endpoints, the loop over the pods listed: a template error ends
\* it with nil and the error
RECURSIVE podSourceLoop(_, _, _, _)
podSourceLoop(ps, items, i, endpoints) ==
    IF i > Len(items) THEN [endpoints |-> endpoints, err |-> Nil]
    ELSE LET podEndpoints == podEndpointsOf(ps, items[i]) IN
         IF podEndpoints.err # Nil THEN [endpoints |-> <<>>, err |-> podEndpoints.err]
         ELSE podSourceLoop(ps, items, i + 1, endpoints \o podEndpoints.endpoints)

\* the List calls of the sources' Kubernetes client
ListOps == {"Pods.List", "Nodes.List", "Ingresses.List"}

\* podSource.Endpoints: nil and the error when listing the pods fails or a
\* template does, the endpoints of the pods listed and nil otherwise
podSourceEndpoints(ps, items, failing) ==
    IF "Pods.List" \in failing THEN [endpoints |-> <<>>, err |-> SomeError]
    ELSE podSourceLoop(ps, items, 1, <<>>)

\* getNodeRole: the last node-role label met names the role, else the older label
RECURSIVE nodeRoleLoop(_, _, _, _)
nodeRoleLoop(labels, order, i, role) ==
    IF i > Len(order) THEN role
    ELSE nodeRoleLoop(labels, order, i + 1,
            IF HasPrefix(order[i], "node-role.kubernetes.io/")
            THEN TrimPrefix(order[i], "node-role.kubernetes.io/") ELSE role)

getNodeRole(node, order) ==
    LET role == nodeRoleLoop(node.Labels, order, 1, "") IN
    IF role = ""
    THEN (IF "kubernetes.io/role" \in DOMAIN node.Labels
          THEN node.Labels["kubernetes.io/role"] ELSE "")
    ELSE role

\* nodeSource.Endpoints, first inner loop: aliases by node name
RECURSIVE nodeNameAliases(_, _, _)
nodeNameAliases(node, j, endpoints) ==
    IF j > Len(node.Addresses) THEN endpoints
    ELSE LET address == node.Addresses[j] IN
         nodeNameAliases(node, j + 1,
            IF address.Type = NodeInternalIP
            THEN Append(endpoints, NewAliasTargetEndpoint(
                     aliasForNodeName(node.Name, RoleTypeInternal), address.Address, RecordTypeA))
            ELSE IF address.Type = NodeExternalIP
            THEN Append(endpoints, NewAliasTargetEndpoint(
                     aliasForNodeName(node.Name, RoleTypeExternal), address.Address, RecordTypeA))
            ELSE endpoints)

\* nodeSource.Endpoints, second inner loop: aliases by node role
RECURSIVE nodeRoleAliases(_, _, _, _)
nodeRoleAliases(node, role, j, endpoints) ==
    IF j > Len(node.Addresses) THEN endpoints
    ELSE LET address == node.Addresses[j] IN
         nodeRoleAliases(node, role, j + 1,
            IF address.Type = NodeInternalIP
            THEN Append(endpoints, NewAliasTargetEndpoint(
                     aliasForNodesInRole(role, RoleTypeInternal), address.Address, RecordTypeA))
            ELSE IF address.Type = NodeExternalIP
            THEN Append(endpoints, NewAliasTargetEndpoint(
                     aliasForNodesInRole(role, RoleTypeExternal), address.Address, RecordTypeA))
            ELSE endpoints)

\* nodeSource.Endpoints over the nodes listed; labelOrders[i] is the order in
\* which the labels of node i are ranged over
RECURSIVE nodeSourceLoop(_, _, _, _)
nodeSourceLoop(items, labelOrders, i, endpoints) ==
    IF i > Len(items) THEN endpoints
    ELSE LET node == items[i]
             byName == nodeNameAliases(node, 1, endpoints)
         IN nodeSourceLoop(items, labelOrders, i + 1,
                nodeRoleAliases(node, getNodeRole(node, labelOrders[i]), 1, byName))

\* nodeSource.Endpoints: nil and the error when listing the nodes fails, the
\* alias endpoints of the nodes listed and nil otherwise
nodeSourceEndpoints(items, labelOrders, failing) ==
    IF "Nodes.List" \in failing THEN [endpoints |-> <<>>, err |-> SomeError]
    ELSE [endpoints |-> nodeSourceLoop(items, labelOrders, 1, <<>>), err |-> Nil]

\* the fields of v1beta1.Ingress the ingress source reads
LoadBalancerIngress(ip, hostname) == [IP |-> ip, Hostname |-> hostname]

Ingress(name, annotations, hosts, loadBalancer) ==
    [Name |-> name, Annotations |-> annotations, Rules |-> hosts,
     LoadBalancer |-> loadBalancer]

\* the endpoints of one load balancer entry under a host name
loadBalancerEndpoints(host, lb) ==
    (IF lb.IP # "" THEN <<NewEndpoint(host, lb.IP, RecordTypeA)>> ELSE <<>>)
        \o (IF lb.Hostname # "" THEN <<NewEndpoint(host, lb.Hostname, RecordTypeCNAME)>>
            ELSE <<>>)

\* the loop over ing.Status.LoadBalancer.Ingress
RECURSIVE loadBalancerLoop(_, _, _, _)
loadBalancerLoop(host, lbs, j, endpoints) ==
    IF j > Len(lbs) THEN endpoints
    ELSE loadBalancerLoop(host, lbs, j + 1, endpoints \o loadBalancerEndpoints(host, lbs[j]))

\* endpointsFromIngress, the loop over ing.Spec.Rules
RECURSIVE rulesLoop(_, _, _)
rulesLoop(ing, i, endpoints) ==
    IF i > Len(ing.Rules) THEN endpoints
    ELSE rulesLoop(ing, i + 1,
            IF ing.Rules[i] = "" THEN endpoints
            ELSE loadBalancerLoop(ing.Rules[i], ing.LoadBalancer, 1, endpoints))

endpointsFromIngress(ing) == rulesLoop(ing, 1, <<>>)

\* ingressSource.endpointsFromTemplate: the template is executed on the
\* ingress and what it writes is the hostname
ingressEndpointsFromTemplate(sc, ing) ==
    LET executed == sc.fqdntemplate[1][ing] IN
    IF executed.err # Nil THEN [endpoints |-> <<>>, err |-> executed.err]
    ELSE [endpoints |-> loadBalancerLoop(executed.out, ing.LoadBalancer, 1, <<>>),
          err |-> Nil]

\* ingressSource.Endpoints, loop body: the endpoints one ingress adds, or the
\* error of the template
ingressEndpointsOf(sc, ing) ==
    IF /\ controllerAnnotationKey \in DOMAIN ing.Annotations
       /\ ing.Annotations[controllerAnnotationKey] # controllerAnnotationValue
    THEN [endpoints |-> <<>>, err |-> Nil]
    ELSE LET direct == endpointsFromIngress(ing) IN
         IF Len(direct) = 0 /\ sc.fqdntemplate # <<>>
         THEN ingressEndpointsFromTemplate(sc, ing)
         ELSE [endpoints |-> direct, err |-> Nil]

\* ingressSource.Endpoints, the loop over the ingresses listed
RECURSIVE ingressSourceLoop(_, _, _, _)
ingressSourceLoop(sc, items, i, endpoints) ==
    IF i > Len(items) THEN [endpoints |-> endpoints, err |-> Nil]
    ELSE LET ingEndpoints == ingressEndpointsOf(sc, items[i]) IN
         IF ingEndpoints.err # Nil THEN [endpoints |-> <<>>, err |-> ingEndpoints.err]
         ELSE ingressSourceLoop(sc, items, i + 1, endpoints \o ingEndpoints.endpoints)

\* ingressSource.Endpoints: nil and the error when listing the ingresses
\* fails or a template does, the endpoints of the ingresses listed and nil
\* otherwise
ingressSourceEndpoints(sc, items, failing) ==
    IF "Ingresses.List" \in failing THEN [endpoints |-> <<>>, err |-> SomeError]
    ELSE ingressSourceLoop(sc, items, 1, <<>>)

-----------------------------------------------------------------------------
(* Pod and node sources feeding the plan *)

MaxPods == 2

HostH == "h.x.y"
HostG == "g.x.y"
Node1 == "n1"
Node2 == "n2"
Node3 == "n3"

\* the pods a listing can hold
ListedPods ==
    {Pod("p1", hostnameAnnotationKey :> HostH, TRUE, Node1, "10.1.0.1"),
     Pod("p2", hostnameAnnotationKey :> HostH, TRUE, Node2, "10.1.0.2"),
     Pod("p3", (hostnameAnnotationKey :> HostG)
                  @@ (controllerAnnotationKey :> controllerAnnotationValue),
         TRUE, Node1, "10.1.0.3"),
     Pod("p4", (hostnameAnnotationKey :> HostH) @@ (controllerAnnotationKey :> "mate"),
         TRUE, Node1, "10.1.0.4"),
     Pod("p5", (hostnameAnnotationKey :> HostG)
                  @@ (dnsControllerInternalAnnotationKey :> HostG)
                  @@ (dnsControllerExternalAnnotationKey :> HostG),
         FALSE, Node1, "10.1.0.5"),
     Pod("p6", (hostnameAnnotationKey :> HostG)
                  @@ (dnsControllerInternalAnnotationKey :> HostG),
         TRUE, "", ""),
     Pod("p7", <<>>, TRUE, Node1, "10.1.0.7"),
     Pod("p8", hostnameAnnotationKey :> HostG, TRUE, Node3, "10.1.0.8"),
     Pod("p9", dnsControllerInternalAnnotationKey :> HostG, TRUE, "", "10.1.0.9"),
     Pod("p10", (dnsControllerInternalAnnotationKey :> HostG)
                   @@ (dnsControllerExternalAnnotationKey :> HostH),
         TRUE, Node1, "10.1.0.10")}

\* the node listings
NodeListings ==
    {<<>>,
     <<Node(Node1, <<>>, <<NodeAddress(NodeExternalIP, "1.1.1.1")>>)>>,
     <<Node(Node1, "node-role.kubernetes.io/master" :> "",
            <<NodeAddress(NodeInternalIP, "10.0.0.1"),
              NodeAddress(NodeExternalIP, "1.1.1.1"),
              NodeAddress(NodeExternalIP, "1.1.1.2")>>),
       Node(Node2, <<>>, <<NodeAddress(NodeInternalIP, "10.0.0.2")>>)>>,
     <<Node(Node1, ("kubernetes.io/role" :> "node") @@ ("zone" :> "a"),
            <<NodeAddress(NodeExternalIP, "1.1.1.1")>>),
       Node(Node2, "kubernetes.io/role" :> "node",
            <<NodeAddress(NodeHostName, "n2"),
              NodeAddress(NodeExternalIP, "2.2.2.2")>>)>>}

\* the ingress listings
IngressListings ==
    {<<>>,
     <<Ingress("i1", controllerAnnotationKey :> "mate", <<HostH>>,
               <<LoadBalancerIngress("3.3.3.3", "")>>),
       Ingress("i2", <<>>, <<"">>, <<LoadBalancerIngress("3.3.3.3", "")>>)>>,
     <<Ingress("i3", <<>>, <<HostH, "">>,
               <<LoadBalancerIngress("3.3.3.3", ""), LoadBalancerIngress("", "lb.z")>>)>>}

\* the sources the loop asks for endpoints
Sources == {"pod", "node", "ingress"}

\* no List call fails, or one of them does
ListFaults == {{}} \cup {{op} : op \in ListOps}

\* the ingresses a listing can hold
ListedIngresses ==
    UNION {{listing[i] : i \in 1..Len(listing)} : listing \in IngressListings}

\* The templates and compatibility modes the sources are built with. Each
\* template is given as the string handed to the constructor and what the
\* library makes of it: it does not parse ("{{}}"), or it parses and, executed
\* on an object, writes the same text for every object ("t.x.y"), writes a
\* text made of the object's name ("{{.Name}}.x.y"), or fails on every object
\* ("{{.Nope}}.x.y": neither a pod nor an ingress has such a field).
SourceConfigs ==
    LET written(text) == [out |-> text, err |-> Nil]
        parsed(tmpl) == [tmpl |-> tmpl, err |-> Nil]
        none == <<"", parsed(<<>>)>>
        unparsed == <<"{{}}", [tmpl |-> <<>>, err |-> SomeError]>>
        text(objects) == <<"t.x.y", parsed([o \in objects |-> written("t.x.y")])>>
        name(objects) ==
            <<"{{.Name}}.x.y", parsed([o \in objects |-> written(o.Name \o ".x.y")])>>
        nope(objects) ==
            <<"{{.Nope}}.x.y", parsed([o \in objects |-> [out |-> "", err |-> SomeError]])>>
    IN {[pod |-> none, compatibility |-> "", ingress |-> none],
        [pod |-> none, compatibility |-> compatibilityDnsController, ingress |-> none],
        [pod |-> name(ListedPods), compatibility |-> "", ingress |-> text(ListedIngresses)],
        [pod |-> text(ListedPods), compatibility |-> compatibilityMate,
         ingress |-> nope(ListedIngresses)],
        [pod |-> nope(ListedPods), compatibility |-> compatibilityDnsController,
         ingress |-> name(ListedIngresses)],
        [pod |-> unparsed, compatibility |-> "", ingress |-> none],
        [pod |-> none, compatibility |-> "", ingress |-> unparsed]}

\* the state once both constructors have returned without error
SourceInit ==
    /\ \E config \in SourceConfigs :
          LET ps == NewPodSource(config.pod[1], config.pod[2], config.compatibility)
              sc == NewIngressSource(config.ingress[1], config.ingress[2])
          IN /\ ps.err = Nil
             /\ sc.err = Nil
             /\ podSource = ps.source
             /\ ingressSource = sc.source
    /\ pods \in SeqsUpTo(ListedPods, MaxPods)
    /\ nodes \in NodeListings
    /\ ingresses \in IngressListings
    /\ called = {}
    /\ desired = <<>>
    /\ current = <<Endpoint(HostH, "1.1.1.1", RecordTypeA, FALSE, OwnerLabels("o1"))>>
    /\ policy = SyncPolicy
    /\ plan = NilPlan
    /\ diff = EmptyChanges
    /\ calculated = NilPlan
    /\ ownerID = ""
    /\ filtered = EmptyChanges
    /\ backend = EmptyBackend
    /\ dryRun = FALSE
    /\ calls = <<>>
    /\ cycle = 0
    /\ faults \in ListFaults
    /\ err = Nil
    /\ pc = "idle"

\* what the loop does with the result of one source's Endpoints: on an error
\* the cycle ends without a desired list; otherwise the endpoints are added
\* to the desired list, which is complete when every source has been asked
Collect(source, result) ==
    /\ desired' = IF result.err # Nil THEN <<>> ELSE desired \o result.endpoints
    /\ err' = result.err
    /\ called' = called \cup {source}
    /\ pc' = IF result.err # Nil THEN "failed"
             ELSE IF called \cup {source} = Sources THEN "records" ELSE "idle"

\* the loop calls podSource.Endpoints
PodEndpointsStep ==
    /\ pc = "idle"
    /\ "pod" \notin called
    /\ Collect("pod", podSourceEndpoints(podSource, pods, faults))
    /\ UNCHANGED <<current, plan, diff, calculated, ownerID, filtered, policy,
                   backend, dryRun, calls, cycle, faults, pods, nodes, ingresses,
                   podSource, ingressSource>>

\* the loop calls nodeSource.Endpoints
NodeEndpointsStep ==
    /\ pc = "idle"
    /\ "node" \notin called
    /\ \E labelOrders \in [1..Len(nodes) -> UNION {Orders(DOMAIN nodes[i].Labels) : i \in 1..Len(nodes)}] :
          /\ \A i \in 1..Len(nodes) : labelOrders[i] \in Orders(DOMAIN nodes[i].Labels)
          /\ Collect("node", nodeSourceEndpoints(nodes, labelOrders, faults))
    /\ UNCHANGED <<current, plan, diff, calculated, ownerID, filtered, policy,
                   backend, dryRun, calls, cycle, faults, pods, nodes, ingresses,
                   podSource, ingressSource>>

\* the loop calls ingressSource.Endpoints
IngressEndpointsStep ==
    /\ pc = "idle"
    /\ "ingress" \notin called
    /\ Collect("ingress", ingressSourceEndpoints(ingressSource, ingresses, faults))
    /\ UNCHANGED <<current, plan, diff, calculated, ownerID, filtered, policy,
                   backend, dryRun, calls, cycle, faults, pods, nodes, ingresses,
                   podSource, ingressSource>>

SourceNext ==
    PodEndpointsStep \/ NodeEndpointsStep \/ IngressEndpointsStep
        \/ NewPlanStep \/ CalculateStep

SourceSpec == SourceInit /\ [][SourceNext]_vars

-----------------------------------------------------------------------------
(* Properties of Plan.Calculate *)

Calculated == pc \in {"calculated", "filtered"}

DesiredKeys == DOMAIN plan.RecordTargets
CurrentKeys == DOMAIN plan.CurrentTargets

KeyOf(es) == RecordKey(es.RecordType, es.DNSName)

\* the set of elements of a slice
Range(s) == {s[i] : i \in 1..Len(s)}

\* multiset equality of two slices, stated by counting
SameMultiset(a, b) == \A x \in Range(a) \cup Range(b) : Count(a, x) = Count(b, x)

\* positions of list whose entry has RecordKey k
IndicesOf(list, k) == {i \in 1..Len(list) : KeyOf(list[i]) = k}

\* C1: when the desired and the current RecordKeys are disjoint, Calculate under
\* the sync policy puts exactly one entry per desired key into Create (the
\* desired targets, no Labels), exactly one entry per current key into Delete
\* (the current targets and Labels), and nothing into UpdateOld and UpdateNew.
C1_DisjointKeys ==
    (Calculated /\ plan.Policies = <<SyncPolicy>> /\ DesiredKeys \cap CurrentKeys = {}) =>
        LET ch == calculated.Changes IN
        /\ Len(ch.Create) = Cardinality(DesiredKeys)
        /\ \A k \in DesiredKeys :
              EndpointSet(k.DNSName, k.RecordType, plan.RecordTargets[k], NoLabels)
                  \in Range(ch.Create)
        /\ Len(ch.Delete) = Cardinality(CurrentKeys)
        /\ \A k \in CurrentKeys :
              EndpointSet(k.DNSName, k.RecordType, plan.CurrentTargets[k], plan.Labels[k])
                  \in Range(ch.Delete)
        /\ ch.UpdateOld = <<>>
        /\ ch.UpdateNew = <<>>

C1_Witness ==
    /\ Calculated
    /\ plan.Policies = <<SyncPolicy>>
    /\ DesiredKeys \cap CurrentKeys = {}
    /\ Cardinality(DesiredKeys) = 2
    /\ \E k \in CurrentKeys : Len(plan.CurrentTargets[k]) = 2 /\ plan.Labels[k] # NoLabels
    /\ Len(calculated.Changes.Create) = 2
    /\ Len(calculated.Changes.Delete) = 1

\* C2: a RecordKey present in both buckets whose desired and current targets
\* are equal as multisets has no entry in Create, UpdateOld, UpdateNew or Delete.
C2_EqualMultisetsNoEntry ==
    Calculated =>
        \A k \in DesiredKeys \cap CurrentKeys :
            SameMultiset(plan.RecordTargets[k], plan.CurrentTargets[k]) =>
                LET ch == calculated.Changes IN
                /\ IndicesOf(ch.Create, k) = {}
                /\ IndicesOf(ch.UpdateOld, k) = {}
                /\ IndicesOf(ch.UpdateNew, k) = {}
                /\ IndicesOf(ch.Delete, k) = {}

\* a key whose targets are reordered between the two snapshots
C2_Witness ==
    /\ Calculated
    /\ \E k \in DesiredKeys \cap CurrentKeys :
          /\ SameMultiset(plan.RecordTargets[k], plan.CurrentTargets[k])
          /\ plan.RecordTargets[k] # plan.CurrentTargets[k]
          /\ IndicesOf(calculated.Changes.UpdateNew, k) = {}

\* C3: a RecordKey present in both buckets whose target multisets differ has
\* exactly one UpdateOld entry (current targets) and one UpdateNew entry (desired
\* targets) at the same index; UpdateOld and UpdateNew have equal length, equal
\* RecordKeys position by position, and carry the current Labels of the key.
C3_UpdatePairs ==
    Calculated =>
        LET ch == calculated.Changes IN
        /\ Len(ch.UpdateOld) = Len(ch.UpdateNew)
        /\ \A i \in 1..Len(ch.UpdateOld) :
              /\ KeyOf(ch.UpdateOld[i]) = KeyOf(ch.UpdateNew[i])
              /\ KeyOf(ch.UpdateOld[i]) \in CurrentKeys
              /\ ch.UpdateOld[i].Labels = plan.Labels[KeyOf(ch.UpdateOld[i])]
              /\ ch.UpdateNew[i].Labels = plan.Labels[KeyOf(ch.UpdateOld[i])]
        /\ \A k \in DesiredKeys \cap CurrentKeys :
              ~SameMultiset(plan.RecordTargets[k], plan.CurrentTargets[k]) =>
                  /\ Cardinality(IndicesOf(ch.UpdateOld, k)) = 1
                  /\ IndicesOf(ch.UpdateNew, k) = IndicesOf(ch.UpdateOld, k)
                  /\ \A i \in IndicesOf(ch.UpdateOld, k) :
                        /\ ch.UpdateOld[i].Targets = plan.CurrentTargets[k]
                        /\ ch.UpdateNew[i].Targets = plan.RecordTargets[k]

C3_Witness ==
    /\ Calculated
    /\ Len(calculated.Changes.UpdateOld) = 2
    /\ \E i \in 1..Len(calculated.Changes.UpdateOld) :
          /\ calculated.Changes.UpdateOld[i].Labels # NoLabels
          /\ calculated.Changes.UpdateNew[i].Labels # NoLabels
          /\ calculated.Changes.UpdateOld[i].Targets # calculated.Changes.UpdateNew[i].Targets

\* C4: under either policy every RecordKey occurs at most once in Create, at
\* most once in Delete, at most once as an (UpdateOld, UpdateNew) pair, and in
\* at most one of these three groups.
C4_CleanPartition ==
    Calculated =>
        LET ch == calculated.Changes
            keys == DesiredKeys \cup CurrentKeys \cup
                    {KeyOf(es) : es \in Range(ch.Create) \cup Range(ch.Delete)
                                        \cup Range(ch.UpdateOld) \cup Range(ch.UpdateNew)}
        IN \A k \in keys :
              /\ Cardinality(IndicesOf(ch.Create, k)) <= 1
              /\ Cardinality(IndicesOf(ch.Delete, k)) <= 1
              /\ Cardinality(IndicesOf(ch.UpdateOld, k)) <= 1
              /\ Cardinality(IndicesOf(ch.UpdateNew, k)) <= 1
              /\ Cardinality(IndicesOf(ch.Create, k)) + Cardinality(IndicesOf(ch.Delete, k))
                    + Cardinality(IndicesOf(ch.UpdateOld, k)) <= 1

\* all three groups are populated at once
C4_Witness ==
    /\ Calculated
    /\ calculated.Changes.Create # <<>>
    /\ calculated.Changes.Delete # <<>>
    /\ calculated.Changes.UpdateOld # <<>>

-----------------------------------------------------------------------------
(* Properties of filterOwnedRecords *)

ListNames == {"Create", "UpdateOld", "UpdateNew", "Delete"}

HasOwner(labels, owner) == OwnerLabelKey \in DOMAIN labels /\ labels[OwnerLabelKey] = owner

\* Labels[owner-key] with a missing label read as the empty string
OwnerOrEmpty(labels) == IF OwnerLabelKey \in DOMAIN labels THEN labels[OwnerLabelKey] ELSE ""

\* C5 as stated: the filter keeps exactly the entries whose owner label, a
\* missing label reading as "", equals ownerID.
C5_MissingLabelReadsEmpty ==
    pc = "filtered" =>
        \A l \in ListNames :
            filtered[l] = SelectSeq(calculated.Changes[l],
                                    LAMBDA es : OwnerOrEmpty(es.Labels) = ownerID)

\* C5 amended: the filter keeps, in order, exactly the entries that carry an
\* owner label equal to ownerID; an entry without an owner label is dropped for
\* every ownerID, the empty one included.
C5_KeepsLabelledMatches ==
    pc = "filtered" =>
        \A l \in ListNames :
            /\ filtered[l] = SelectSeq(calculated.Changes[l],
                                       LAMBDA es : HasOwner(es.Labels, ownerID))
            /\ \A es \in Range(calculated.Changes[l]) :
                  OwnerLabelKey \notin DOMAIN es.Labels => es \notin Range(filtered[l])

\* ownerID = "" against entries none of which has an owner label: all dropped;
C5_Witness ==
    /\ pc = "filtered"
    /\ ownerID = ""
    /\ Len(calculated.Changes.Delete) = 2
    /\ \A es \in Range(calculated.Changes.Delete) : es.Labels = NoLabels
    /\ filtered.Delete = <<>>

\* C6 as stated: filtering Create or UpdateNew returns the list unchanged.
C6_FilterIsNoOpOnCreateAndUpdateNew ==
    pc = "filtered" =>
        /\ filtered.Create = calculated.Changes.Create
        /\ filtered.UpdateNew = calculated.Changes.UpdateNew

\* C6 amended: filtering the Create list of a Calculate result returns the
\* empty list for every ownerID (Create entries carry no Labels), and filtering
\* UpdateNew keeps exactly the entries whose key is recorded in the current
\* state with owner label ownerID.
C6_FilterEmptiesCreate ==
    pc = "filtered" =>
        /\ filtered.Create = <<>>
        /\ filtered.UpdateNew =
              SelectSeq(calculated.Changes.UpdateNew,
                        LAMBDA es : HasOwner(lookupLabels(plan.Labels, KeyOf(es)), ownerID))

C6_Witness ==
    /\ pc = "filtered"
    /\ calculated.Changes.Create # <<>>
    /\ filtered.Create = <<>>
    /\ calculated.Changes.UpdateNew # <<>>
    /\ filtered.UpdateNew = <<>>

-----------------------------------------------------------------------------
(* Properties of the policies *)

\* C7: with the upsert-only policy the Changes of the returned Plan have an
\* empty Delete list and the Create, UpdateOld and UpdateNew lists of the raw
\* diff, entry for entry; with the sync policy all four lists are the raw diff's.
C7_PolicyFrame ==
    Calculated =>
        /\ plan.Policies = <<UpsertOnlyPolicy>> =>
              /\ calculated.Changes.Delete = <<>>
              /\ calculated.Changes.Create = diff.Create
              /\ calculated.Changes.UpdateOld = diff.UpdateOld
              /\ calculated.Changes.UpdateNew = diff.UpdateNew
        /\ plan.Policies = <<SyncPolicy>> => calculated.Changes = diff

C7_Witness ==
    /\ Calculated
    /\ plan.Policies = <<UpsertOnlyPolicy>>
    /\ diff.Delete # <<>>
    /\ diff.Create # <<>>
    /\ diff.UpdateOld # <<>>
    /\ calculated.Changes.Delete = <<>>

-----------------------------------------------------------------------------
(* Properties of NewPlan *)

AllTypes == {RecordTypeA, RecordTypeCNAME, RecordTypeTXT, RecordTypeInternalALIAS}
AllNames == {desired[i].DNSName : i \in 1..Len(desired)}
AllTargets == {desired[i].Target : i \in 1..Len(desired)}

\* how often target t is contributed to the desired bucket key: once per regular
\* endpoint with that key and target, and once per pair (ep, a) of a regular
\* InternalAlias endpoint ep and an AliasTarget endpoint a registered under ep.Target
Contributions(key, t) ==
    Cardinality({i \in 1..Len(desired) :
                    /\ ~desired[i].AliasTarget
                    /\ desired[i].RecordType # RecordTypeInternalALIAS
                    /\ RecordKey(desired[i].RecordType, desired[i].DNSName) = key
                    /\ desired[i].Target = t})
    + Cardinality({ij \in (1..Len(desired)) \X (1..Len(desired)) :
                    LET ep == desired[ij[1]]
                        a == desired[ij[2]]
                    IN /\ ~ep.AliasTarget
                       /\ ep.RecordType = RecordTypeInternalALIAS
                       /\ a.AliasTarget
                       /\ a.DNSName = ep.Target
                       /\ RecordKey(a.RecordType, ep.DNSName) = key
                       /\ a.Target = t})

ExampleDesired ==
    <<Endpoint(AliasName, Target1, RecordTypeCNAME, TRUE, NoLabels),
      Endpoint(AppName, AliasName, RecordTypeInternalALIAS, FALSE, NoLabels)>>

\* C8: the desired bucket {a.RecordType, ep.DNSName} receives a.Target once per
\* pair of an InternalAlias endpoint ep and an AliasTarget endpoint a registered
\* under ep.Target, and nothing else from ep; for the example (an alias lb of
\* type CNAME and an InternalAlias endpoint app -> lb, nothing current) Calculate
\* yields one Create entry {CNAME, app} with the alias's target and nothing else.
C8_AliasExpansion ==
    /\ pc # "records" =>
          \A rt \in AllTypes, n \in AllNames :
              LET key == RecordKey(rt, n) IN
              /\ \A t \in AllTargets :
                    Count(lookupSlice(plan.RecordTargets, key), t) = Contributions(key, t)
              /\ key \in DOMAIN plan.RecordTargets <=>
                    \E t \in AllTargets : Contributions(key, t) > 0
    /\ pc # "records" =>
          \A key \in DOMAIN plan.RecordTargets :
              key.RecordType \in AllTypes /\ key.DNSName \in AllNames
    /\ (Calculated /\ desired = ExampleDesired /\ current = <<>>) =>
          /\ calculated.Changes.Create =
                <<EndpointSet(AppName, RecordTypeCNAME, <<Target1>>, NoLabels)>>
          /\ calculated.Changes.UpdateOld = <<>>
          /\ calculated.Changes.UpdateNew = <<>>
          /\ calculated.Changes.Delete = <<>>

C8_Witness ==
    /\ Calculated
    /\ desired = ExampleDesired
    /\ current = <<>>
    /\ Len(calculated.Changes.Create) = 1
    /\ calculated.Changes.Create[1].DNSName = AppName

-----------------------------------------------------------------------------
(* Properties of the reconciliation loop against Azure DNS *)

ManagedZones == {zones[i] : i \in 1..Len(zones)}

\* the name lies in the zone: it is the zone's name or a name below it
InZone(name, zone) == name = zone \/ HasSuffix(name, "." \o zone)

\* no record set of a managed zone lies at or below the name of a longer managed zone
NoShadowedRecordSet ==
    \A zone \in ManagedZones :
        \A i \in 1..Len(backend[zone]) :
            backend[zone][i].Name # Nil =>
                \A other \in ManagedZones :
                    InZone(formatAzureDNSName(backend[zone][i].Name, zone), other)
                        => Len(other) <= Len(zone)

\* C9: after one pass under the sync policy (Records, Calculate, ApplyChanges,
\* not dry-run) over a desired list of A/CNAME/TXT endpoints inside managed
\* zones, the next pass over the same desired list calculates empty Changes
\* (stated for backends in which every record set is served by its own zone).
C9_ConvergesInOnePass ==
    (/\ pc = "calculated"
     /\ cycle >= 1
     /\ plan.Policies = <<SyncPolicy>>
     /\ ~dryRun
     /\ NoShadowedRecordSet
     /\ \A i \in 1..Len(desired) :
           /\ desired[i].RecordType \in {RecordTypeA, RecordTypeCNAME, RecordTypeTXT}
           /\ \E zone \in ManagedZones : InZone(desired[i].DNSName, zone))
    => calculated.Changes = EmptyChanges

\* the managed zone whose name is the longest suffix of name
HasZone(name) == \E zone \in ManagedZones : HasSuffix(name, zone)
ZoneOf(name) ==
    CHOOSE zone \in ManagedZones :
        /\ HasSuffix(name, zone)
        /\ \A other \in ManagedZones : HasSuffix(name, other) => Len(other) <= Len(zone)

\* the record name of a DNS name in its zone
Stripped(name, zone) ==
    IF name = zone THEN "@"
    ELSE IF HasSuffix(name, "." \o zone) THEN SubSeq(name, 1, Len(name) - Len(zone) - 1)
    ELSE SubSeq(name, 1, Len(name) - Len(zone))

\* what identifies the backend call an entry asks for, and the call made
EntrySignature(op, es) ==
    <<op, ZoneOf(es.DNSName), Stripped(es.DNSName, ZoneOf(es.DNSName)), es.RecordType,
      IF op = "Delete" THEN "" ELSE es.Targets[1]>>
CallSignature(call) ==
    <<call.op, call.zone, call.name, call.recordType, extractAzureTarget(call.parameters)>>

SameCalls(expected) ==
    LET made == [i \in 1..Len(calls) |-> CallSignature(calls[i])] IN
    SameMultiset(made, expected) /\ Len(made) = Len(expected)

Applied == pc = "idle" /\ cycle >= 1 /\ ~dryRun

ExpectedDeletes ==
    LET entries == SelectSeq(calculated.Changes.Delete \o calculated.Changes.UpdateOld,
                             LAMBDA es : HasZone(es.DNSName))
    IN [i \in 1..Len(entries) |-> EntrySignature("Delete", entries[i])]

\* C10: after ApplyChanges (not dry-run) the backend calls made are exactly one
\* Delete call per Delete/UpdateOld entry with a managed zone and one
\* CreateOrUpdate call per Create/UpdateNew entry with a managed zone, each
\* addressed to the entry's zone under the name with the zone suffix stripped
\* ("@" at the apex); entries without a managed zone cause no call.
C10_CallPerMappedEntry ==
    Applied =>
        LET entries == SelectSeq(calculated.Changes.Create \o calculated.Changes.UpdateNew,
                                 LAMBDA es : HasZone(es.DNSName))
        IN SameCalls(ExpectedDeletes \o
                     [i \in 1..Len(entries) |-> EntrySignature("CreateOrUpdate", entries[i])])

-----------------------------------------------------------------------------
(* Properties of AzureProvider.ApplyChanges *)

\* ApplyChanges has returned from a run that was not a dry run and in which no
\* client operation failed
AppliedCleanly == pc = "idle" /\ cycle >= 1 /\ ~dryRun /\ faults = {}

IsDigit(c) == c \in {"0", "1", "2", "3", "4", "5", "6", "7", "8", "9"}

\* the string is digit groups separated by dots; groups counts the groups
\* closed so far and open tells whether the current group has a digit
RECURSIVE dottedGroups(_, _, _)
dottedGroups(str, groups, open) ==
    IF str = "" THEN (IF open THEN groups + 1 ELSE 0)
    ELSE IF IsDigit(Head(str)) THEN dottedGroups(Tail(str), groups, TRUE)
    ELSE IF Head(str) = "." /\ open THEN dottedGroups(Tail(str), groups + 1, FALSE)
    ELSE 0

\* the target is an IPv4 address in dotted notation
IsAddress(target) == dottedGroups(target, 0, FALSE) = 4

\* the type suitable for an entry: its own if it has one, else A for an
\* address and CNAME for a host name
SuitableType(es) ==
    IF es.RecordType # "" THEN es.RecordType
    ELSE IF IsAddress(es.Targets[1]) THEN RecordTypeA ELSE RecordTypeCNAME

\* a call of operation op was made for the entry under the given type
CalledAs(op, es, type) ==
    \E i \in 1..Len(calls) :
        /\ calls[i].op = op
        /\ calls[i].zone = ZoneOf(es.DNSName)
        /\ calls[i].name = Stripped(es.DNSName, ZoneOf(es.DNSName))
        /\ calls[i].recordType = type

\* C11: an entry with empty RecordType in a managed zone is given a suitable
\* type before the backend is called: every such Create/UpdateNew entry gets a
\* CreateOrUpdate call and every such Delete/UpdateOld entry a Delete call, as
\* an A record when its target is an address and as a CNAME record otherwise.
C11_EmptyTypeGetsSuitableType ==
    AppliedCleanly =>
        /\ \A es \in Range(calculated.Changes.Create \o calculated.Changes.UpdateNew) :
              (es.RecordType = "" /\ HasZone(es.DNSName)) =>
                  CalledAs("CreateOrUpdate", es, SuitableType(es))
        /\ \A es \in Range(calculated.Changes.Delete \o calculated.Changes.UpdateOld) :
              (es.RecordType = "" /\ HasZone(es.DNSName)) =>
                  CalledAs("Delete", es, SuitableType(es))

\* C12: a dry-run ApplyChanges makes no Delete and no CreateOrUpdate call and
\* leaves the record sets of every zone as they were, for any Changes value.
C12_DryRunTouchesNothing ==
    [][(dryRun /\ pc = "calculated" /\ pc' = "idle")
          => (backend' = backend /\ calls' = <<>>)]_vars

\* a dry run over zones that hold record sets, asked to delete and to create
C12_Witness ==
    /\ pc = "idle"
    /\ cycle >= 1
    /\ dryRun
    /\ faults = {}
    /\ backend # EmptyBackend
    /\ \E es \in Range(calculated.Changes.Delete \o calculated.Changes.UpdateOld) :
          HasZone(es.DNSName)
    /\ \E es \in Range(calculated.Changes.Create \o calculated.Changes.UpdateNew) :
          HasZone(es.DNSName) /\ ~newRecordSet(es).err
    /\ calls = <<>>

\* something failed during the ApplyChanges call that has returned: the zone
\* listing, a backend call that was made, or the building of a record set
SomethingFailed ==
    \/ zonesErr(faults) # Nil
    \/ \E i \in 1..Len(calls) : calls[i].op \in faults
    \/ /\ ~dryRun
       /\ zonesErr(faults) = Nil
       /\ \E es \in Range(calculated.Changes.Create \o calculated.Changes.UpdateNew) :
             HasZone(es.DNSName) /\ newRecordSet(es).err

\* C14: ApplyChanges returns nil when the operation was successful and a
\* non-nil error when the zone listing failed, a backend Delete or
\* CreateOrUpdate call failed, or a record set could not be built.
C14_FailuresSurface ==
    (pc = "idle" /\ cycle >= 1) => (err # Nil <=> SomethingFailed)

\* C20: within one ApplyChanges call every Delete call is issued before any
\* CreateOrUpdate call, across all zones; so the old record set of an update
\* pair is deleted before the new one is written.
C20_DeletesFirst ==
    (pc = "idle" /\ cycle >= 1) =>
        /\ \A i, j \in 1..Len(calls) :
              (calls[i].op = "Delete" /\ calls[j].op = "CreateOrUpdate") => i < j
        /\ \A k \in 1..Len(calculated.Changes.UpdateOld) :
              k <= Len(calculated.Changes.UpdateNew) =>
                 LET old == calculated.Changes.UpdateOld[k]
                     new == calculated.Changes.UpdateNew[k]
                 IN (HasZone(old.DNSName) /\ HasZone(new.DNSName)) =>
                       \A i, j \in 1..Len(calls) :
                          (/\ CallSignature(calls[i]) = EntrySignature("Delete", old)
                           /\ CallSignature(calls[j]) = EntrySignature("CreateOrUpdate", new))
                              => i < j

\* deletes in two zones and writes in two zones within one call
C20_Witness ==
    /\ pc = "idle"
    /\ cycle >= 1
    /\ \E i, j \in 1..Len(calls) :
          calls[i].op = "Delete" /\ calls[j].op = "Delete" /\ calls[i].zone # calls[j].zone
    /\ \E i, j \in 1..Len(calls) :
          /\ calls[i].op = "CreateOrUpdate" /\ calls[j].op = "CreateOrUpdate"
          /\ calls[i].zone # calls[j].zone

-----------------------------------------------------------------------------
(* Properties of AzureProvider.Records *)

SupportedTypes == {RecordTypeA, RecordTypeCNAME, RecordTypeTXT}

\* the record set's type with the Azure prefix removed ("" without the prefix)
TypeWithoutPrefix(type) ==
    IF Len(type) >= Len(AzureTypePrefix) /\ SubSeq(type, 1, Len(AzureTypePrefix)) = AzureTypePrefix
    THEN SubSeq(type, Len(AzureTypePrefix) + 1, Len(type))
    ELSE ""

\* the first value a record set of a supported type holds, "" when it holds none
FirstValue(recordSet) ==
    LET type == TypeWithoutPrefix(recordSet.Type) IN
    IF type = RecordTypeA
    THEN (IF recordSet.ARecords # <<>> /\ recordSet.ARecords[1] # Nil
          THEN recordSet.ARecords[1] ELSE "")
    ELSE IF type = RecordTypeCNAME
    THEN (IF recordSet.Cname # Nil THEN recordSet.Cname ELSE "")
    ELSE IF type = RecordTypeTXT
    THEN (IF recordSet.TxtRecords # <<>> /\ recordSet.TxtRecords[1] # <<>>
          THEN recordSet.TxtRecords[1][1] ELSE "")
    ELSE ""

\* the record set has a name, a supported type and a target
Reported(recordSet) ==
    /\ recordSet.Name # Nil
    /\ recordSet.Type # Nil
    /\ TypeWithoutPrefix(recordSet.Type) \in SupportedTypes
    /\ FirstValue(recordSet) # ""

\* the endpoint the claim ascribes to a reported record set of a zone
EndpointOf(zone, recordSet) ==
    Endpoint(IF recordSet.Name = "@" THEN zone ELSE recordSet.Name \o "." \o zone,
             FirstValue(recordSet), TypeWithoutPrefix(recordSet.Type), FALSE, NoLabels)

\* the endpoints of the reported record sets of the zones from position i on
\* whose name ends with the domain filter
RECURSIVE ExpectedEndpoints(_)
ExpectedEndpoints(i) ==
    IF i > Len(ResourceGroupZones) THEN <<>>
    ELSE LET zone == ResourceGroupZones[i]
             listed == SelectSeq(backend[zone], Reported)
         IN (IF HasSuffix(zone, domainFilter)
             THEN [k \in 1..Len(listed) |-> EndpointOf(zone, listed[k])]
             ELSE <<>>) \o ExpectedEndpoints(i + 1)

\* C13: Records returns exactly one endpoint per record set of type A, CNAME
\* or TXT with a name, a type and a target, over the zones whose name ends
\* with the domain filter, and none for any other record set; its DNSName is
\* the zone name for "@" and record.zone otherwise, and its RecordType is the
\* record set's type without the Azure prefix.
C13_OneEndpointPerRecordSet ==
    (pc = "records" /\ cycle = 0 /\ err = Nil) =>
        /\ Len(current) = Len(ExpectedEndpoints(1))
        /\ SameMultiset(current, ExpectedEndpoints(1))

\* record sets in a managed zone, at its apex, and in a zone the domain filter
\* leaves out
C13_Witness ==
    /\ pc = "records"
    /\ cycle = 0
    /\ err = Nil
    /\ backend["q.r"] # <<>>
    /\ backend["b.x.y"] # <<>>
    /\ \E i \in 1..Len(backend["x.y"]) : backend["x.y"][i].Name = "@"
    /\ Len(current) = 2

-----------------------------------------------------------------------------
(* Properties of the policy chain, of NewPlan's aggregation and of the Plan's
   life over reconciliation cycles *)

CalculatedInCycle == pc \in {"calculated", "recalculated"}

\* the policies applied left to right: the last policy is applied to what the
\* policies before it made of the changes
RECURSIVE ApplyInOrder(_, _)
ApplyInOrder(policies, changes) ==
    IF policies = <<>> THEN changes
    ELSE Apply(policies[Len(policies)],
               ApplyInOrder(SubSeq(policies, 1, Len(policies) - 1), changes))

KeysOfChanges(changes) ==
    {KeyOf(es) : es \in Range(changes.Create) \cup Range(changes.UpdateOld)
                       \cup Range(changes.UpdateNew) \cup Range(changes.Delete)}

\* C15: the Changes of the returned Plan are the raw diff passed through the
\* policies of Plan.Policies, each applied exactly once and in list order,
\* each policy receiving the output of the one before (the first the raw
\* diff); no policy's output holds a RecordKey absent from the raw diff.
C15_PoliciesInOrder ==
    CalculatedInCycle =>
        /\ calculated.Changes = ApplyInOrder(plan.Policies, diff)
        /\ \A n \in 0..Len(plan.Policies) :
              KeysOfChanges(ApplyInOrder(SubSeq(plan.Policies, 1, n), diff))
                  \subseteq KeysOfChanges(diff)

\* the staged policy followed by upsert-only on a raw diff that creates and
\* deletes: the creations survive, which they would not with the two
\* policies in the other order or with the staged policy applied twice
C15_Witness ==
    /\ CalculatedInCycle
    /\ plan.Policies = <<StagedPolicy, UpsertOnlyPolicy>>
    /\ diff.Delete # <<>>
    /\ diff.Create # <<>>
    /\ calculated.Changes.Delete = <<>>
    /\ calculated.Changes.Create = diff.Create
    /\ ApplyInOrder(<<UpsertOnlyPolicy, StagedPolicy>>, diff) # calculated.Changes
    /\ ApplyInOrder(<<StagedPolicy, StagedPolicy, UpsertOnlyPolicy>>, diff)
          # calculated.Changes

\* a regular InternalAlias endpoint of the desired list for whose Target the
\* desired list registers no AliasTarget endpoint
Dangling(ep) ==
    /\ ~ep.AliasTarget
    /\ ep.RecordType = RecordTypeInternalALIAS
    /\ \A j \in 1..Len(desired) :
          ~(desired[j].AliasTarget /\ desired[j].DNSName = ep.Target)

WithoutDangling == SelectSeq(desired, LAMBDA ep : ~Dangling(ep))

\* C16: an InternalAlias endpoint without a registered alias contributes
\* nothing: the Plan is the one NewPlan builds from the desired list without
\* it (so Calculate, which reads only the Plan, gives the same Changes), no
\* bucket of type InternalAlias exists, and under the sync policy a current
\* key under its DNSName that no desired bucket covers is in Delete.
C16_DanglingAliasContributesNothing ==
    /\ pc # "records" =>
          /\ plan = NewPlan(current, WithoutDangling, policy)
          /\ \A k \in DesiredKeys : k.RecordType # RecordTypeInternalALIAS
    /\ (Calculated /\ policy = SyncPolicy) =>
          \A i \in 1..Len(desired) :
              Dangling(desired[i]) =>
                  \A k \in CurrentKeys :
                      (k.DNSName = desired[i].DNSName /\ k \notin DesiredKeys) =>
                          IndicesOf(calculated.Changes.Delete, k) # {}

C16_Witness ==
    /\ Calculated
    /\ policy = SyncPolicy
    /\ \E i \in 1..Len(desired) :
          /\ Dangling(desired[i])
          /\ \E k \in CurrentKeys :
                /\ k.DNSName = desired[i].DNSName
                /\ k \notin DesiredKeys
                /\ IndicesOf(calculated.Changes.Delete, k) # {}

\* the RecordKeys of the current list, and its endpoints of one key in input order
CurrentKeySet == {RecordKey(current[i].RecordType, current[i].DNSName) : i \in 1..Len(current)}
CurrentOfKey(k) ==
    SelectSeq(current, LAMBDA ep : RecordKey(ep.RecordType, ep.DNSName) = k)
LastLabels(k) == CurrentOfKey(k)[Len(CurrentOfKey(k))].Labels

\* the current buckets and the Labels snapshot are those of the current list
CurrentAggregated ==
    /\ DOMAIN plan.CurrentTargets = CurrentKeySet
    /\ DOMAIN plan.Labels = CurrentKeySet
    /\ \A k \in CurrentKeySet :
          /\ plan.CurrentTargets[k] =
                [i \in 1..Len(CurrentOfKey(k)) |-> CurrentOfKey(k)[i].Target]
          /\ plan.Labels[k] = LastLabels(k)

\* C17: the current-target list of a RecordKey holds the targets of all current
\* endpoints of that key in input order, the Labels recorded for the key are
\* those of the last such endpoint, and every Delete, UpdateOld and UpdateNew
\* entry of the key carries these Labels.
C17_LastLabelsWin ==
    /\ pc # "records" => CurrentAggregated
    /\ Calculated =>
          \A l \in {"Delete", "UpdateOld", "UpdateNew"} :
              \A es \in Range(calculated.Changes[l]) :
                  /\ KeyOf(es) \in CurrentKeySet
                  /\ es.Labels = LastLabels(KeyOf(es))

\* two current endpoints of one key with different Labels, the key deleted
C17_Witness ==
    /\ Calculated
    /\ \E k \in CurrentKeySet :
          /\ Len(CurrentOfKey(k)) = 2
          /\ CurrentOfKey(k)[1].Labels # CurrentOfKey(k)[2].Labels
          /\ CurrentOfKey(k)[1].Target # CurrentOfKey(k)[2].Target
          /\ \E i \in IndicesOf(calculated.Changes.Delete, k) :
                calculated.Changes.Delete[i].Labels = CurrentOfKey(k)[2].Labels

\* the same entries in Create, the same in Delete and the same update pairs
UpdatePairs(changes) ==
    {<<changes.UpdateOld[i], changes.UpdateNew[i]>> : i \in 1..Len(changes.UpdateOld)}
SameContent(a, b) ==
    /\ Len(a.Create) = Len(b.Create) /\ Range(a.Create) = Range(b.Create)
    /\ Len(a.Delete) = Len(b.Delete) /\ Range(a.Delete) = Range(b.Delete)
    /\ Len(a.UpdateOld) = Len(a.UpdateNew) /\ Len(b.UpdateOld) = Len(b.UpdateNew)
    /\ Len(a.UpdateOld) = Len(b.UpdateOld)
    /\ UpdatePairs(a) = UpdatePairs(b)

\* the Plan is made of this cycle's desired and current lists and of nothing else
PlanOfThisCycle ==
    /\ DOMAIN plan.Aliases =
          {desired[i].DNSName : i \in {j \in 1..Len(desired) : desired[j].AliasTarget}}
    /\ \A n \in DOMAIN plan.Aliases :
          plan.Aliases[n] = SelectSeq(desired, LAMBDA ep : ep.AliasTarget /\ ep.DNSName = n)
    /\ CurrentAggregated
    /\ \A key \in DOMAIN plan.RecordTargets :
          /\ key.RecordType \in AllTypes /\ key.DNSName \in AllNames
          /\ Range(plan.RecordTargets[key]) \subseteq AllTargets
    /\ \A rt \in AllTypes, n \in AllNames :
          LET key == RecordKey(rt, n) IN
          /\ key \in DOMAIN plan.RecordTargets <=>
                \E t \in AllTargets : Contributions(key, t) > 0
          /\ \A t \in AllTargets :
                Count(lookupSlice(plan.RecordTargets, key), t) = Contributions(key, t)

\* C18: in every cycle the Plan, and so the Changes Calculate derives from it,
\* is determined by that cycle's desired list, current list and policy; nothing
\* of an earlier cycle is in it; Calculate leaves the receiving Plan as it was,
\* and a second Calculate on the same Plan gives the same entries and pairs.
C18_NoCrossCycleState ==
    /\ [](pc \in {"planned", "calculated", "recalculated"} => PlanOfThisCycle)
    /\ [][/\ (pc = "records" /\ pc' = "planned") => plan'.Policies = <<policy>>
          /\ (pc \in {"planned", "calculated"} /\ pc' \in {"calculated", "recalculated"}) =>
                /\ plan' = plan
                /\ \E od \in Orders(DOMAIN plan.RecordTargets),
                       oc \in Orders(DOMAIN plan.CurrentTargets) :
                      calculated' = Calculate(plan, od, oc)
          /\ (pc = "calculated" /\ pc' = "recalculated") =>
                SameContent(calculated.Changes, calculated'.Changes)]_vars

\* a later cycle whose desired list has an InternalAlias endpoint and no alias
C18_Witness ==
    /\ pc = "recalculated"
    /\ cycle = 2
    /\ \E i \in 1..Len(desired) : Dangling(desired[i])
    /\ plan.Aliases = <<>>
    /\ current # <<>>
    /\ calculated.Changes.Delete # <<>>

\* C19: for fixed desired and current lists every iteration order of the two
\* bucket maps gives the same set of Create entries, the same set of Delete
\* entries and the same set of (UpdateOld[i], UpdateNew[i]) pairs as the order
\* taken; only the order of entries within a list differs.
C19_OrderIndependent ==
    CalculatedInCycle =>
        \A od \in Orders(DOMAIN plan.RecordTargets), oc \in Orders(DOMAIN plan.CurrentTargets) :
            LET other == Calculate(plan, od, oc).Changes IN
            /\ SameContent(calculated.Changes, other)
            /\ \A i \in 1..Len(other.UpdateOld) :
                  KeyOf(other.UpdateOld[i]) = KeyOf(other.UpdateNew[i])

\* two update pairs that another iteration order lists the other way round
C19_Witness ==
    /\ CalculatedInCycle
    /\ Len(calculated.Changes.UpdateOld) = 2
    /\ \E od \in Orders(DOMAIN plan.RecordTargets), oc \in Orders(DOMAIN plan.CurrentTargets) :
          Calculate(plan, od, oc).Changes.UpdateOld # calculated.Changes.UpdateOld

-----------------------------------------------------------------------------
(* Properties of the loop under the upsert-only policy *)

\* the record sets a backend holds, each identified by zone, name and type
RecordSetKeysOf(b) ==
    UNION {{<<zone, b[zone][i].Name, b[zone][i].Type>> : i \in 1..Len(b[zone])} :
              zone \in DOMAIN b}

\* C21: under the upsert-only policy every record set the backend holds before
\* a cycle's ApplyChanges is still held when ApplyChanges has returned,
\* whatever the desired list is and whether or not a record set can be built.
C21_UpsertOnlyIsAdditive ==
    [][(pc = "calculated" /\ pc' = "idle" /\ plan.Policies = <<UpsertOnlyPolicy>>)
          => RecordSetKeysOf(backend) \subseteq RecordSetKeysOf(backend')]_vars

-----------------------------------------------------------------------------
(* Ownership filtering of update pairs *)

\* list `kept` holds entries of `list` only, each once, in the order of `list`
KeptInOrder(kept, list) ==
    kept = SelectSeq(list, LAMBDA es : es \in Range(kept))

\* C22: filtering UpdateOld and UpdateNew of a Calculate result separately
\* gives two lists of equal length whose position i holds the old and the new
\* entry of one RecordKey, an update pair being kept whole or dropped whole;
\* every entry kept in Delete or UpdateOld carries the owner label ownerID;
\* the filter adds no entry and keeps the order of the entries.
C22_FilterKeepsPairsWhole ==
    pc = "filtered" =>
        LET changes == calculated.Changes IN
        /\ Len(filtered.UpdateOld) = Len(filtered.UpdateNew)
        /\ \A i \in 1..Len(filtered.UpdateOld) :
              /\ KeyOf(filtered.UpdateOld[i]) = KeyOf(filtered.UpdateNew[i])
              /\ \E j \in 1..Len(changes.UpdateOld) :
                    /\ changes.UpdateOld[j] = filtered.UpdateOld[i]
                    /\ changes.UpdateNew[j] = filtered.UpdateNew[i]
        /\ \A j \in 1..Len(changes.UpdateOld) :
              changes.UpdateOld[j] \in Range(filtered.UpdateOld)
                  <=> changes.UpdateNew[j] \in Range(filtered.UpdateNew)
        /\ \A es \in Range(filtered.Delete) \cup Range(filtered.UpdateOld) :
              HasOwner(es.Labels, ownerID)
        /\ \A l \in ListNames : KeptInOrder(filtered[l], changes[l])

\* two update pairs, the first one dropped whole and the second kept whole
C22_Witness ==
    /\ pc = "filtered"
    /\ Len(calculated.Changes.UpdateOld) = 2
    /\ Len(calculated.Changes.UpdateNew) = 2
    /\ filtered.UpdateOld = <<calculated.Changes.UpdateOld[2]>>
    /\ filtered.UpdateNew = <<calculated.Changes.UpdateNew[2]>>

-----------------------------------------------------------------------------
(* Alias resolution and the order of the desired list *)

\* every reordering of a list
Reorderings(list) ==
    {[i \in 1..Len(list) |-> list[f[i]]] : f \in Permutations(1..Len(list))}

\* an entry with its Targets taken as a multiset
UpToTargetOrder(es) ==
    [DNSName |-> es.DNSName, RecordType |-> es.RecordType, Labels |-> es.Labels,
     Targets |-> [t \in Range(es.Targets) |-> Count(es.Targets, t)]]

SameUpToTargetOrder(a, b) ==
    /\ \A l \in ListNames : Len(a[l]) = Len(b[l])
    /\ \A l \in {"Create", "Delete"} :
          {UpToTargetOrder(es) : es \in Range(a[l])} = {UpToTargetOrder(es) : es \in Range(b[l])}
    /\ {<<UpToTargetOrder(pair[1]), UpToTargetOrder(pair[2])>> : pair \in UpdatePairs(a)}
          = {<<UpToTargetOrder(pair[1]), UpToTargetOrder(pair[2])>> : pair \in UpdatePairs(b)}

\* C23: for every reordering of the desired list, one with an InternalAlias
\* endpoint ahead of its AliasTarget endpoints included, NewPlan gives desired
\* buckets with the same keys and the same target multisets, and Calculate
\* gives the same Changes up to the order of targets.
C23_AliasPositionIndependent ==
    CalculatedInCycle =>
        \A reordered \in Reorderings(desired) :
            LET other == [NewPlan(current, reordered, policy) EXCEPT !.Policies = plan.Policies] IN
            /\ DOMAIN other.RecordTargets = DOMAIN plan.RecordTargets
            /\ \A key \in DOMAIN plan.RecordTargets :
                  SameMultiset(other.RecordTargets[key], plan.RecordTargets[key])
            /\ \A od \in Orders(DOMAIN other.RecordTargets),
                  oc \in Orders(DOMAIN other.CurrentTargets) :
                  SameUpToTargetOrder(Calculate(other, od, oc).Changes, calculated.Changes)

\* an InternalAlias endpoint ahead of the AliasTarget endpoint it refers to,
\* expanded into a bucket whose target order depends on the list order, with
\* an update derived from it
C23_Witness ==
    /\ CalculatedInCycle
    /\ \E i, j \in 1..Len(desired) :
          /\ i < j
          /\ desired[i].RecordType = RecordTypeInternalALIAS
          /\ desired[j].AliasTarget /\ desired[j].DNSName = desired[i].Target
          /\ LET key == RecordKey(desired[j].RecordType, desired[i].DNSName) IN
             /\ key \in DOMAIN plan.RecordTargets
             /\ \E reordered \in Reorderings(desired) :
                   NewPlan(current, reordered, policy).RecordTargets[key]
                       # plan.RecordTargets[key]
             /\ \E k \in 1..Len(calculated.Changes.UpdateNew) :
                   KeyOf(calculated.Changes.UpdateNew[k]) = key

-----------------------------------------------------------------------------
(* Zone of a change *)

\* the entries of the four lists of a Changes value
EntriesOf(changes) == UNION {Range(changes[l]) : l \in ListNames}

\* the index of the longest managed zone the name lies in, 0 if there is none
ContainingZone(name) ==
    IF \A i \in 1..Len(zones) : ~InZone(name, zones[i]) THEN 0
    ELSE CHOOSE i \in 1..Len(zones) :
            /\ InZone(name, zones[i])
            /\ \A j \in 1..Len(zones) : InZone(name, zones[j]) => Len(zones[j]) <= Len(zones[i])

\* C24: findZone gives the longest managed zone that contains the DNSName (nil
\* if none), an entry is mapped to a zone only if its DNSName is the zone's
\* name or ends with "." followed by the zone's name, and every call
\* ApplyChanges makes on a zone is for an entry whose DNSName lies in that zone.
C24_OnlyToContainingZone ==
    [][(pc = "calculated" /\ pc' = "idle") =>
          LET mapped == mapChanges(zones, calculated.Changes) IN
          /\ \A es \in EntriesOf(calculated.Changes) :
                findZone(zones, es.DNSName) = ContainingZone(es.DNSName)
          /\ \A m \in {mapped.deleted, mapped.updated} :
                \A z \in DOMAIN m : \A es \in Range(m[z]) : InZone(es.DNSName, zones[z])
          /\ \A k \in (Len(calls) + 1)..Len(calls') :
                \E es \in EntriesOf(calculated.Changes) :
                    /\ InZone(es.DNSName, calls'[k].zone)
                    /\ recordSetNameForZone(calls'[k].zone, es) = calls'[k].name]_vars

-----------------------------------------------------------------------------
(* Pod and node sources composed through the alias index *)

\* the Plan is built and the desired list is the pod source's endpoints
\* together with the node source's: the ingress source has added none
Planned ==
    /\ pc \in {"planned", "calculated"}
    /\ called = Sources
    /\ ingressSourceEndpoints(ingressSource, ingresses, faults).endpoints = <<>>

\* the pod source is built without a compatibility mode and without a template
Unconfigured == podSource.compatibility = "" /\ podSource.fqdntemplate = <<>>

\* what the pod source makes of the pod
EndpointsOfPod(pod) == podEndpointsOf(podSource, pod).endpoints

\* the pod carries the hostname annotation, is HostNetwork and has a node name
OnNode(pod) ==
    /\ hostnameAnnotationKey \in DOMAIN pod.Annotations
    /\ pod.HostNetwork
    /\ pod.NodeName # ""

\* the pod source does not skip the pod for its controller annotation
Responsible(pod) ==
    controllerAnnotationKey \in DOMAIN pod.Annotations
        => pod.Annotations[controllerAnnotationKey] = controllerAnnotationValue

\* the ExternalIP address entries of the node named n that hold address addr
ExternalEntries(n, addr) ==
    UNION {{<<j, k>> : k \in {a \in 1..Len(nodes[j].Addresses) :
                                /\ nodes[j].Addresses[a].Type = NodeExternalIP
                                /\ nodes[j].Addresses[a].Address = addr}} :
              j \in {b \in 1..Len(nodes) : nodes[b].Name = n}}

NodeAddresses ==
    UNION {{nodes[j].Addresses[k].Address : k \in 1..Len(nodes[j].Addresses)} :
              j \in 1..Len(nodes)}

PodHostnames ==
    {pods[i].Annotations[hostnameAnnotationKey] :
        i \in {j \in 1..Len(pods) : hostnameAnnotationKey \in DOMAIN pods[j].Annotations}}

\* no bucket and no entry of the Changes is named like a node alias
NoNodeAliasPlanned ==
    /\ \A key \in DOMAIN plan.RecordTargets :
          key.RecordType = RecordTypeA /\ ~HasPrefix(key.DNSName, "node/")
    /\ pc = "calculated" =>
          \A es \in EntriesOf(calculated.Changes) : ~HasPrefix(es.DNSName, "node/")

\* the regular endpoints of the desired list are one per listed pod that is
\* not skipped, is annotated, HostNetwork and has a node name
OneEndpointPerPodOnNode ==
    Len(SelectSeq(desired, LAMBDA ep : ~ep.AliasTarget))
        = Cardinality({i \in 1..Len(pods) : Responsible(pods[i]) /\ OnNode(pods[i])})

\* C25 as stated: each HostNetwork pod annotated h on node n that the pod
\* source does not skip gives a bucket {A, h} whose targets are exactly the
\* ExternalIP addresses of n, and no bucket for h if n has none.
C25_BucketIsTheNodesExternalIPs ==
    Planned =>
        /\ \A i \in 1..Len(pods) :
              (Responsible(pods[i]) /\ OnNode(pods[i])) =>
                 LET key == RecordKey(RecordTypeA, pods[i].Annotations[hostnameAnnotationKey])
                     targets == lookupSlice(plan.RecordTargets, key)
                 IN /\ key \in DOMAIN plan.RecordTargets
                          <=> \E addr \in NodeAddresses :
                                 ExternalEntries(pods[i].NodeName, addr) # {}
                    /\ \A addr \in NodeAddresses \cup Range(targets) :
                          Count(targets, addr)
                              = Cardinality(ExternalEntries(pods[i].NodeName, addr))
        /\ \A i \in 1..Len(pods) :
              (~pods[i].HostNetwork \/ pods[i].NodeName = "") => EndpointsOfPod(pods[i]) = <<>>
        /\ NoNodeAliasPlanned

\* the (pod, node address) combinations that give bucket {A, h} the target addr
Contributing(h, addr) ==
    UNION {{<<i, e>> : e \in ExternalEntries(pods[i].NodeName, addr)} :
              i \in {j \in 1..Len(pods) :
                        /\ Responsible(pods[j]) /\ OnNode(pods[j])
                        /\ pods[j].Annotations[hostnameAnnotationKey] = h}}

\* the pod is published through the dns-controller compatibility mode under
\* its internal annotation: the mode is on, the pod is not skipped, carries the
\* annotation, is HostNetwork and has a pod IP
LegacyInternal(pod) ==
    /\ podSource.compatibility = compatibilityDnsController
    /\ Responsible(pod)
    /\ dnsControllerInternalAnnotationKey \in DOMAIN pod.Annotations
    /\ pod.HostNetwork
    /\ pod.PodIP # ""

\* C25 amended. With a pod source built without compatibility mode and
\* without template: the bucket {A, h} holds one target per ExternalIP address
\* of the node of every pod that is annotated h, HostNetwork, has a node name
\* and is not skipped for its controller annotation (pods sharing h add up, a
\* pod with a foreign controller annotation adds nothing); there is no bucket
\* for h if none of these nodes has an ExternalIP; every other pod contributes
\* no endpoint. However the pod source is built: a pod that is not HostNetwork
\* contributes no endpoint; a pod without a node name contributes no endpoint,
\* except that in dns-controller compatibility mode it contributes the A
\* endpoint of its internal annotation and pod IP; no bucket and no planned
\* record is named like a node alias.
C25_BucketSumsOverPods ==
    Planned =>
        /\ Unconfigured =>
              /\ \A h \in PodHostnames :
                    LET key == RecordKey(RecordTypeA, h)
                        targets == lookupSlice(plan.RecordTargets, key)
                    IN /\ key \in DOMAIN plan.RecordTargets
                             <=> \E addr \in NodeAddresses : Contributing(h, addr) # {}
                       /\ \A addr \in NodeAddresses \cup Range(targets) :
                             Count(targets, addr) = Cardinality(Contributing(h, addr))
              /\ \A key \in DOMAIN plan.RecordTargets : key.DNSName \in PodHostnames
              /\ \A i \in 1..Len(pods) :
                    ~(Responsible(pods[i]) /\ OnNode(pods[i])) => EndpointsOfPod(pods[i]) = <<>>
              /\ OneEndpointPerPodOnNode
        /\ \A i \in 1..Len(pods) :
              ~pods[i].HostNetwork => EndpointsOfPod(pods[i]) = <<>>
        /\ \A i \in 1..Len(pods) :
              pods[i].NodeName = "" =>
                 EndpointsOfPod(pods[i])
                    = IF LegacyInternal(pods[i])
                      THEN <<NewEndpoint(pods[i].Annotations[dnsControllerInternalAnnotationKey],
                                         pods[i].PodIP, RecordTypeA)>>
                      ELSE <<>>
        /\ NoNodeAliasPlanned

\* two pods annotated with one hostname on two nodes that both have an
\* ExternalIP: the bucket holds the addresses of both nodes
C25_Witness ==
    /\ Planned
    /\ Unconfigured
    /\ pc = "calculated"
    /\ Len(pods) = 2
    /\ OnNode(pods[1]) /\ OnNode(pods[2])
    /\ pods[1].Annotations[hostnameAnnotationKey] = pods[2].Annotations[hostnameAnnotationKey]
    /\ pods[1].NodeName # pods[2].NodeName
    /\ LET key == RecordKey(RecordTypeA, pods[1].Annotations[hostnameAnnotationKey]) IN
       /\ key \in DOMAIN plan.RecordTargets
       /\ SameMultiset(plan.RecordTargets[key], <<"1.1.1.1", "2.2.2.2">>)
       /\ \E k \in 1..Len(calculated.Changes.UpdateNew) :
             KeyOf(calculated.Changes.UpdateNew[k]) = key

====
